---- MODULE Spec2Model ----
(***************************************************************************)
(* aionatgrid: the request executor of NationalGridClient (client.py) and  *)
(* the OIDC login of oidchelper.py, as state machines.                     *)
(*                                                                         *)
(* Client part.  Callers are coroutines sharing one NationalGridClient.    *)
(* A caller runs execute / request_rest: the attempt loop, each attempt    *)
(* being _ensure_session, _get_access_token, the HTTP request and the      *)
(* except-handler that decides between raise, RetryExhaustedError and a    *)
(* backoff sleep.  close() runs as a coroutine of its own.  Steps are cut  *)
(* at the awaits of the code; waiting for a lock is a step of its own, so  *)
(* the model admits every schedule of the event loop (and the schedules in *)
(* which a caller is suspended between the unlocked check and the lock).   *)
(*                                                                         *)
(* None is 0 for sessions, tokens and timestamps.                          *)
(*                                                                         *)
(* Login part.  async_auth_oidc runs request by request: discovery,        *)
(* authorization GET, credential POST, confirm-signin GET, token exchange. *)
(* Each answer (status, body, final URL) or transport error is an input.   *)
(* None is "" for codes, subs and tokens, {} for the settings.             *)
(***************************************************************************)
EXTENDS Integers, Sequences, FiniteSets, TLC

\* ------------------------------------------------------------ bounds
NumCallers == 2
MaxTicks == 2
TimeStep == 300
\* logins in one run: two for each caller, which is what one call of each needs
MaxLogins == 2 * NumCallers
MaxCloses == 1
RaceMaxAttempts == 2
ShortTTL == 300
LongTTL == 900

\* ------------------------------------------------- program constants
TOKEN_EXPIRY_BUFFER_SECONDS == 300
DefaultMaxAttempts == 3
RetryOnStatusWithout500 == {408, 429, 502, 503, 504}
RetryOnStatus == {408, 429, 500, 502, 503, 504}

Callers == 1..NumCallers
Kinds == {"graphql", "rest"}

\* What the API endpoint answers to one request: a status, or a transport error.
HttpStatuses == {200, 400, 401, 500}
TransportErrors == {"ClientConnectionError", "TimeoutError"}
StatusName(s) ==
    IF s = 200 THEN "200" ELSE IF s = 400 THEN "400" ELSE IF s = 401 THEN "401" ELSE "500"
\* NationalGridAuth.async_login as auth.py defines it takes (session, username,
\* password, login_data); _get_access_token calls it with timeout= as well, which
\* that signature rejects with a TypeError.  A callable bound in its place that takes
\* the keyword yields (token, expires_in), or one of the login's exceptions.
LoginBindings == {"auth.py", "replaced"}
ExpiresInValues == {0, ShortTTL, LongTTL}
LoginErrors == {"InvalidAuthError", "CannotConnectError"}
SignatureError == "TypeError"

VARIABLES
    \* NationalGridConfig / RetryConfig, immutable after construction
    credentials,        \* username and password are both set
    max_attempts,
    retry_on_connection_errors,
    retry_on_timeout,
    async_login,        \* what NationalGridAuth.async_login is bound to
    rest_base_url,      \* NationalGridConfig.rest_base_url, "" when empty
    \* NationalGridClient
    session,            \* self._session: 0 or a session id
    owns_session,       \* self._owns_session
    closed,             \* ids of the sessions whose close() was called
    access_token,       \* self._access_token: 0 or a token id
    token_expires_at,   \* self._token_expires_at: 0 or a time
    auth_lock,          \* self._auth_lock: 0 or the caller holding it
    session_lock,       \* self._session_lock: 0 or the caller holding it
    \* environment
    callers,            \* the coroutines that call the client
    operations,         \* the operations they call: execute, request_rest
    closer,             \* some coroutine calls close() in this run
    offered,            \* what the API endpoint and the login answer in this run
    now,                \* time.time()
    nSessions,          \* sessions created by _ensure_session so far
    nLogins,            \* async_login invocations so far
    nCloses,            \* close() calls that closed a session
    closePc,            \* close(): "idle" or "closing" (awaiting session.close())
    \* per caller: the frame of execute / request_rest
    pc, kind, attempt, sess, tok, last_error, result,
    \* per caller: history of the current call
    https,              \* HTTP requests issued
    sleeps,             \* backoff sleeps started
    logins,             \* logins run, per attempt (a sequence)
    outcome,            \* what the latest attempt ended with
    first401,           \* the first attempt was answered 401
    seen,               \* the cache as the attempt's unlocked check found it
    waited,             \* the attempt was suspended on the auth lock during a login
    \* async_auth_oidc: one login
    lpc,                \* the request the login awaits, or "start", "returned", "raised"
    requests,           \* the requests sent so far, in order
    fetched,            \* what _fetch returned for them, in order
    settings,           \* the keys of the SETTINGS blob extracted, {} for None
    auth_code,          \* the authorization code, "" for None
    login_data,         \* login_data["sub"] of the caller's map, "" when unset
    lresult,            \* what the login returned or raised
    \* per caller: the body of the 2xx answer as the call returned it
    response,
    \* one call of a function that awaits nothing
    args,               \* the function and its arguments
    ret                 \* what it returned or raised

cfgVars == <<credentials, max_attempts, retry_on_connection_errors, retry_on_timeout, async_login,
             rest_base_url, owns_session, callers, operations, closer, offered>>
clientVars == <<session, closed, access_token, token_expires_at, auth_lock, session_lock>>
envVars == <<now, nSessions, nLogins, nCloses, closePc>>
frameVars == <<pc, kind, attempt, sess, tok, last_error, result>>
histVars == <<https, sleeps, logins, outcome, first401, seen, waited>>
loginVars == <<lpc, requests, fetched, settings, auth_code, login_data, lresult>>
respVars == <<response>>
pureVars == <<args, ret>>
vars == <<cfgVars, clientVars, envVars, frameVars, histVars, loginVars, respVars, pureVars>>

\* ------------------------------------------------------- exceptions
NoError == [cls |-> "none", status |-> 0, orig |-> "none"]
\* GraphQLError for execute, RestAPIError for request_rest
ApiErrorOf(k) == IF k = "graphql" THEN "GraphQLError" ELSE "RestAPIError"
\* raise GraphQLError(..., status=e.status, original_error=e) of a ClientResponseError
StatusError(k, s) == [cls |-> ApiErrorOf(k), status |-> s, orig |-> "ClientResponseError"]
PlainError(c) == [cls |-> c, status |-> 0, orig |-> "none"]

NoResult == [exc |-> "none", status |-> 0, attempts |-> 0, last |-> NoError, orig |-> "none"]
Returned == [exc |-> "ok", status |-> 0, attempts |-> 0, last |-> NoError, orig |-> "none"]

IsApiError(e) == e.cls \in {"GraphQLError", "RestAPIError"}
\* The classes of aiohttp and asyncio a transport failure may have, each with
\* the classes it inherits from: ServerDisconnectedError and ServerTimeoutError
\* are ServerConnectionErrors, hence ClientConnectionErrors; ServerTimeoutError
\* is an asyncio.TimeoutError as well.
Bases(cls) ==
    IF cls = "ServerDisconnectedError"
    THEN {"ServerDisconnectedError", "ServerConnectionError", "ClientConnectionError"}
    ELSE IF cls = "ServerTimeoutError"
    THEN {"ServerTimeoutError", "ServerConnectionError", "ClientConnectionError", "TimeoutError"}
    ELSE {cls}
\* isinstance(e, classes)
IsInstance(cls, classes) == Bases(cls) \cap classes # {}

IsConnectionError(cls) == IsInstance(cls, {"ClientConnectionError", "ServerDisconnectedError"})
IsTimeoutError(cls) == IsInstance(cls, {"ServerTimeoutError", "TimeoutError"})

\* ---------------------------------------------------- _should_retry
\* (mutant) a 401 is retried on every attempt but the last
ShouldRetry401Always(error, att) ==
    att < max_attempts - 1
    /\ \/ error.status \in RetryOnStatus \cup {401}
       \/ error.cls \in TransportErrors

\* (mutant) every HTTP status error is retried while attempts remain
ShouldRetryAnyStatus(error, att) ==
    att < max_attempts - 1 /\ (error.status # 0 \/ error.cls \in TransportErrors)

ShouldRetry(error, att) ==
    IF att >= max_attempts - 1 THEN FALSE
    ELSE LET check == IF IsApiError(error) /\ error.orig # "none" THEN error.orig ELSE error.cls
         IN \/ retry_on_connection_errors /\ IsConnectionError(check)
            \/ retry_on_timeout /\ IsTimeoutError(check)
            \/ /\ check = "ClientResponseError"
               /\ \/ error.status \in RetryOnStatus
                  \/ error.status = 401 /\ att = 0
            \/ /\ IsApiError(error)
               /\ \/ error.status # 0 /\ error.status \in RetryOnStatus
                  \/ error.status = 401 /\ att = 0

IsLastAttempt(att) == att >= max_attempts - 1

\* (mutant) a retryable status is retried whatever the attempt index
DecideNoLimit(error, att) ==
    IF error.status \in RetryOnStatus THEN "retry"
    ELSE IF IsLastAttempt(att) THEN "exhausted"
    ELSE "raise"

\* The except-handler of the attempt loop: "raise", "exhausted" or "retry".
Decide(error, att) ==
    IF ~ShouldRetry(error, att) /\ ~IsLastAttempt(att) THEN "raise"
    ELSE IF IsLastAttempt(att) THEN "exhausted"
    ELSE "retry"

\* _resolve_rest_url returns: REST calls are made with a relative path (as the
\* library's own request builders make them), which needs a base URL.
RestBaseUrls == {"", "https://example.test/api"}
Resolvable == rest_base_url # ""

\* What the caller sees when the handler raises at once: the API error itself, or
\* the error wrapped in one.  request_rest resolves the URL again for the
\* wrapper, and the ValueError of that leaves the handler as it is.
Raised(k, e) ==
    IF e.cls = ApiErrorOf(k)
    THEN [exc |-> e.cls, status |-> e.status, attempts |-> 0, last |-> NoError, orig |-> e.orig]
    ELSE IF k = "rest" /\ ~Resolvable
    THEN [exc |-> "ValueError", status |-> 0, attempts |-> 0, last |-> NoError, orig |-> "none"]
    ELSE [exc |-> ApiErrorOf(k), status |-> 0, attempts |-> 0, last |-> NoError, orig |-> e.cls]

\* (mutant) attempts reports the index of the last attempt
RetryExhaustedIndex(e) ==
    [exc |-> "RetryExhaustedError", status |-> 0, attempts |-> max_attempts - 1, last |-> e,
     orig |-> "none"]

RetryExhausted(e) ==
    [exc |-> "RetryExhaustedError", status |-> 0, attempts |-> max_attempts, last |-> e,
     orig |-> "none"]

\* ------------------------------------------------------ predicates
SessionLive == session # 0 /\ session \notin closed
\* A token is cached and now is more than 300 seconds before its expiry.
Fresh == access_token # 0 /\ token_expires_at # 0 /\ now + 300 < token_expires_at
\* (mutant) the expiry is not looked at
TokenValidNoExpiry == access_token # 0

TokenValid ==
    /\ access_token # 0
    /\ token_expires_at # 0
    /\ now < token_expires_at - TOKEN_EXPIRY_BUFFER_SECONDS

\* --------------------------------------------------------------- Init
\* A run has one caller, every configuration, every answer of the endpoint and
\* a concurrent close(); or it has several callers racing on a client that has
\* credentials, where the endpoint accepts or rejects the token.
\* Every transport failure the retry policy tells apart.
AllTransportErrors == TransportErrors \cup {"ServerDisconnectedError", "ServerTimeoutError"}

\* The 2xx answers, by the name a run offers them under.
OkAnswers == {"200", "200:errors", "200:data+errors", "200:empty_errors"}

InitOneCaller ==
    /\ callers = {1}
    /\ closer = TRUE
    /\ operations = Kinds
    /\ offered = {StatusName(s) : s \in HttpStatuses} \cup OkAnswers
                     \cup TransportErrors \cup LoginErrors
    /\ credentials \in BOOLEAN
    /\ async_login \in LoginBindings
    /\ rest_base_url \in RestBaseUrls
    /\ max_attempts \in 1..DefaultMaxAttempts
    /\ \/ session = 0 /\ owns_session = TRUE /\ nSessions = 0
       \/ session = 1 /\ owns_session = FALSE /\ nSessions = 1

InitRace ==
    /\ callers = Callers
    /\ closer = FALSE
    /\ operations = {"graphql"}
    /\ offered = {"200", "401", "InvalidAuthError"}
    /\ credentials = TRUE
    /\ async_login \in LoginBindings
    /\ rest_base_url = "https://example.test/api"
    /\ max_attempts = RaceMaxAttempts
    /\ session = 0 /\ owns_session = TRUE /\ nSessions = 0

\* One caller of a client without credentials whose requests fail in the
\* transport, under each setting of the two retry switches.
InitTransport ==
    /\ callers = {1}
    /\ closer = FALSE
    /\ operations = Kinds
    /\ offered = {"200"} \cup AllTransportErrors
    /\ credentials = FALSE
    /\ async_login = "auth.py"
    /\ rest_base_url = "https://example.test/api"
    /\ max_attempts \in 1..DefaultMaxAttempts
    /\ retry_on_connection_errors \in BOOLEAN
    /\ retry_on_timeout \in BOOLEAN
    /\ session = 0 /\ owns_session = TRUE /\ nSessions = 0

NoLoginResult == [kind |-> "none", token |-> "", expires_in |-> 0]

\* No login is under way (the client part abstracts it to its outcome).
LoginIdle ==
    /\ lpc = "start"
    /\ requests = <<>>
    /\ fetched = <<>>
    /\ settings = {}
    /\ auth_code = ""
    /\ login_data = ""
    /\ lresult = NoLoginResult

\* No function is being looked at on its own.
NoArgs == [fn |-> "none"]
NoReturn == [done |-> FALSE]
PureIdle == args = NoArgs /\ ret = NoReturn

\* No 2xx body was returned.
NoResponse == [data |-> "none", errors |-> "none"]

ClientInit ==
    /\ \/ /\ InitOneCaller \/ InitRace
          /\ retry_on_connection_errors = TRUE
          /\ retry_on_timeout = TRUE
       \/ InitTransport
    /\ response = [c \in Callers |-> NoResponse]
    /\ closed = {}
    /\ access_token = 0
    /\ token_expires_at = 0
    /\ auth_lock = 0
    /\ session_lock = 0
    /\ now = 0
    /\ nLogins = 0
    /\ nCloses = 0
    /\ closePc = "idle"
    /\ pc = [c \in Callers |-> "idle"]
    /\ kind = [c \in Callers |-> "graphql"]
    /\ attempt = [c \in Callers |-> 0]
    /\ sess = [c \in Callers |-> 0]
    /\ tok = [c \in Callers |-> 0]
    /\ last_error = [c \in Callers |-> NoError]
    /\ result = [c \in Callers |-> NoResult]
    /\ https = [c \in Callers |-> 0]
    /\ sleeps = [c \in Callers |-> 0]
    /\ logins = [c \in Callers |-> <<>>]
    /\ outcome = [c \in Callers |-> "none"]
    /\ first401 = [c \in Callers |-> FALSE]
    /\ seen = [c \in Callers |-> "none"]
    /\ waited = [c \in Callers |-> FALSE]

Init == ClientInit /\ LoginIdle /\ PureIdle

\* ------------------------------------------------------------ actions
\* execute / request_rest is entered: the frame is fresh, attempt 0 begins.
\* execute / request_rest is entered: the locals of the attempt loop.
EnterCall(c, k) ==
    /\ c \in callers
    /\ k \in operations
    /\ pc[c] \in {"idle", "done"}
    /\ pc' = [pc EXCEPT ![c] = "ensure"]
    /\ kind' = [kind EXCEPT ![c] = k]
    /\ attempt' = [attempt EXCEPT ![c] = 0]
    /\ sess' = [sess EXCEPT ![c] = 0]
    /\ tok' = [tok EXCEPT ![c] = 0]
    /\ last_error' = [last_error EXCEPT ![c] = NoError]
    /\ result' = [result EXCEPT ![c] = NoResult]
    /\ https' = [https EXCEPT ![c] = 0]
    /\ sleeps' = [sleeps EXCEPT ![c] = 0]
    /\ logins' = [logins EXCEPT ![c] = <<0>>]
    /\ outcome' = [outcome EXCEPT ![c] = "none"]
    /\ first401' = [first401 EXCEPT ![c] = FALSE]
    /\ seen' = [seen EXCEPT ![c] = "none"]
    /\ waited' = [waited EXCEPT ![c] = FALSE]
    /\ response' = [response EXCEPT ![c] = NoResponse]
    /\ UNCHANGED <<loginVars, cfgVars, clientVars, envVars>>

StartCall(c, k) == EnterCall(c, k) /\ UNCHANGED pureVars

\* _ensure_session, the check without the lock.
EnsureSessionFast(c) ==
    /\ pc[c] = "ensure"
    /\ IF SessionLive
       THEN /\ sess' = [sess EXCEPT ![c] = session]
            /\ pc' = [pc EXCEPT ![c] = "token"]
       ELSE /\ pc' = [pc EXCEPT ![c] = "session_lock"]
            /\ UNCHANGED sess
    /\ UNCHANGED <<pureVars, respVars, loginVars, cfgVars, clientVars, envVars, histVars,
                   kind, attempt, tok, last_error, result>>

\* async with self._session_lock
SessionLockAcquire(c) ==
    /\ pc[c] = "session_lock"
    /\ session_lock = 0
    /\ session_lock' = c
    /\ pc' = [pc EXCEPT ![c] = "session_cs"]
    /\ UNCHANGED <<pureVars, respVars, loginVars, cfgVars, envVars, histVars, session, closed, access_token,
                   token_expires_at, auth_lock,
                   kind, attempt, sess, tok, last_error, result>>

\* (mutant) no check under the lock
NoDoubleCheckSession == FALSE

\* The check under the lock; a new ClientSession when there is still none.
DoubleCheckSession == SessionLive

EnsureSessionLocked(c) ==
    /\ pc[c] = "session_cs"
    /\ IF DoubleCheckSession
       THEN /\ sess' = [sess EXCEPT ![c] = session]
            /\ UNCHANGED <<session, nSessions>>
       ELSE /\ nSessions' = nSessions + 1
            /\ session' = nSessions + 1
            /\ sess' = [sess EXCEPT ![c] = nSessions + 1]
    /\ session_lock' = 0
    /\ pc' = [pc EXCEPT ![c] = "token"]
    /\ UNCHANGED <<pureVars, respVars, loginVars, cfgVars, histVars, closed, access_token, token_expires_at, auth_lock,
                   now, nLogins, nCloses, closePc,
                   kind, attempt, tok, last_error, result>>

\* The except-handler: last_error = e, then raise, RetryExhaustedError, or sleep.
Handle(c, e, o) ==
    /\ last_error' = [last_error EXCEPT ![c] = e]
    /\ outcome' = [outcome EXCEPT ![c] = o]
    /\ first401' = [first401 EXCEPT ![c] = first401[c] \/ (attempt[c] = 0 /\ o = "401")]
    /\ LET d == Decide(e, attempt[c]) IN
       /\ pc' = [pc EXCEPT ![c] = IF d = "retry" THEN "sleep" ELSE "done"]
       /\ result' = [result EXCEPT ![c] =
                        IF d = "raise" THEN Raised(kind[c], e)
                        ELSE IF d = "exhausted" THEN RetryExhausted(e)
                        ELSE result[c]]
       /\ sleeps' = [sleeps EXCEPT ![c] = IF d = "retry" THEN sleeps[c] + 1 ELSE sleeps[c]]

\* The token is returned to the attempt, which issues session.post / session.request
\* with it (no await lies between the two).  request_rest resolves the URL in
\* between: when that raises, no request is issued (the raise is the step
\* ResolveRaises, which touches nothing but the caller's own frame).
Issue(c, t) ==
    /\ tok' = [tok EXCEPT ![c] = t]
    /\ IF kind[c] = "rest" /\ ~Resolvable
       THEN pc' = [pc EXCEPT ![c] = "resolve"] /\ UNCHANGED https
       ELSE pc' = [pc EXCEPT ![c] = "http"] /\ https' = [https EXCEPT ![c] = @ + 1]

\* (mutant) the credentials are not looked at
NoCredentialsNever == FALSE

\* if not self._config.username or not self._config.password: return None
NoCredentials == ~credentials

\* _get_access_token, the check without the lock and the credentials check.
GetTokenFast(c) ==
    /\ pc[c] = "token"
    /\ seen' = [seen EXCEPT ![c] = IF Fresh THEN "fresh" ELSE "stale"]
    /\ IF TokenValid
       THEN Issue(c, access_token) /\ UNCHANGED waited
       ELSE IF NoCredentials
       THEN Issue(c, 0) /\ UNCHANGED waited
       ELSE /\ pc' = [pc EXCEPT ![c] = "auth_lock"]
            /\ waited' = [waited EXCEPT ![c] = auth_lock # 0]
            /\ UNCHANGED <<tok, https>>
    /\ UNCHANGED <<pureVars, respVars, loginVars, cfgVars, clientVars, envVars,
                   kind, attempt, sess, last_error, result,
                   sleeps, logins, outcome, first401>>

\* (mutant) the auth lock lets every caller in
AuthLockFreeAlways == TRUE

\* asyncio.Lock: the lock is acquired only when nobody holds it
AuthLockFree == auth_lock = 0

\* (mutant) no check under the auth lock
NoDoubleCheckToken == FALSE

\* The check under the auth lock.
DoubleCheckToken == TokenValid

\* async with self._auth_lock: the double check, then async_login is called.  The
\* call of auth.py's async_login raises at once, inside the lock, with no await.
AuthLockAcquire(c) ==
    /\ pc[c] = "auth_lock"
    /\ AuthLockFree
    /\ IF DoubleCheckToken
       THEN /\ Issue(c, access_token)
            /\ UNCHANGED <<auth_lock, nLogins, logins, waited,
                           last_error, result, sleeps, outcome, first401>>
       ELSE /\ nLogins < MaxLogins
            /\ nLogins' = nLogins + 1
            /\ logins' = [logins EXCEPT ![c][attempt[c] + 1] = @ + 1]
            /\ IF async_login = "auth.py"
               THEN /\ Handle(c, PlainError(SignatureError), SignatureError)
                    /\ UNCHANGED <<auth_lock, waited>>
               ELSE /\ auth_lock' = c
                    /\ pc' = [pc EXCEPT ![c] = "login"]
                    /\ waited' = [d \in Callers |->
                                     waited[d] \/ (d # c /\ pc[d] = "auth_lock")]
                    /\ UNCHANGED <<last_error, result, sleeps, outcome, first401>>
            /\ UNCHANGED <<tok, https>>
    /\ UNCHANGED <<pureVars, respVars, loginVars, cfgVars, session, closed, access_token, token_expires_at,
                   session_lock, now, nSessions, nCloses, closePc,
                   kind, attempt, sess, seen>>

\* (mutant) the expiry of a new token is not stored
ExpiresAtNone(expires_in) == 0

\* self._token_expires_at = time.time() + expires_in
ExpiresAt(expires_in) == now + expires_in

\* async_login returned (token, expires_in): the cache is set, the lock released.
LoginReturns(c, expires_in) ==
    /\ pc[c] = "login"
    /\ async_login = "replaced"
    /\ IF expires_in # 0
       THEN /\ access_token' = nLogins
            /\ token_expires_at' = ExpiresAt(expires_in)
       ELSE /\ access_token' = 0
            /\ token_expires_at' = 0
    /\ auth_lock' = 0
    /\ Issue(c, access_token')
    /\ UNCHANGED <<pureVars, respVars, loginVars, cfgVars, envVars, session, closed, session_lock,
                   kind, attempt, sess, last_error, result,
                   sleeps, logins, outcome, first401, seen, waited>>

\* async_login raised: the lock is released, the attempt has failed.
LoginRaises(c, cls) ==
    /\ pc[c] = "login"
    /\ cls \in offered
    /\ auth_lock' = 0
    /\ Handle(c, PlainError(cls), cls)
    /\ UNCHANGED <<pureVars, respVars, loginVars, cfgVars, envVars, session, closed, access_token, token_expires_at,
                   session_lock, kind, attempt, sess, tok, https, logins, seen, waited>>

\* The JSON body of a 2xx answer: a dict of the keys present; the values are
\* opaque ("[]" is the empty list).
PayloadKeys == {"data", "errors"}
Payload(p) ==
    IF p = "200" THEN [k \in {"data"} |-> "d1"]
    ELSE IF p = "200:errors" THEN [k \in {"errors"} |-> "[e1]"]
    ELSE IF p = "200:data+errors" THEN [k \in PayloadKeys |-> IF k = "data" THEN "d1" ELSE "[e1]"]
    ELSE [k \in PayloadKeys |-> IF k = "data" THEN "d1" ELSE "[]"]

\* payload.get(key)
Get(payload, key) == IF key \in DOMAIN payload THEN payload[key] ELSE "None"

\* (mutant) the errors of the payload are dropped
FromPayloadNoErrors(payload) == [data |-> Get(payload, "data"), errors |-> "None"]

\* GraphQLResponse.from_payload (the extensions are treated like the data)
FromPayload(payload) == [data |-> Get(payload, "data"), errors |-> Get(payload, "errors")]

\* RestResponse: the parsed body as it is
RestResponse(payload) == [data |-> payload]

\* The response is 2xx: the body is parsed and returned.
ResponseOk(c, p) ==
    /\ pc[c] = "http"
    /\ p \in offered
    /\ kind[c] = "rest" => p = "200"
    /\ pc' = [pc EXCEPT ![c] = "done"]
    /\ result' = [result EXCEPT ![c] = Returned]
    /\ outcome' = [outcome EXCEPT ![c] = "200"]
    /\ response' = [response EXCEPT ![c] =
                        IF kind[c] = "graphql" THEN FromPayload(Payload(p))
                        ELSE RestResponse(Payload(p))]
    /\ UNCHANGED <<pureVars, loginVars, cfgVars, clientVars, envVars,
                   kind, attempt, sess, tok, last_error,
                   https, sleeps, logins, first401, seen, waited>>

\* (mutant) a 401 leaves the cache alone
ClearsTokenNever(s) == FALSE

\* raise_for_status() raised: a 401 clears the cached token; the error is wrapped.
ClearsToken(s) == s = 401

ResponseError(c, s) ==
    /\ pc[c] = "http"
    /\ StatusName(s) \in offered
    /\ IF ClearsToken(s)
       THEN /\ access_token' = 0
            /\ token_expires_at' = 0
       ELSE UNCHANGED <<access_token, token_expires_at>>
    /\ Handle(c, StatusError(kind[c], s), StatusName(s))
    /\ UNCHANGED <<pureVars, respVars, loginVars, cfgVars, envVars, session, closed, auth_lock, session_lock,
                   kind, attempt, sess, tok, https, logins, seen, waited>>

\* The transport raised (connection error, timeout): no response.
TransportError(c, cls) ==
    /\ pc[c] = "http"
    /\ cls \in offered
    /\ Handle(c, PlainError(cls), cls)
    /\ UNCHANGED <<pureVars, respVars, loginVars, cfgVars, clientVars, envVars,
                   kind, attempt, sess, tok, https, logins, seen, waited>>

\* url = self._resolve_rest_url(path_or_url) raised ValueError inside the try.
ResolveRaises(c) ==
    /\ pc[c] = "resolve"
    /\ Handle(c, PlainError("ValueError"), "ValueError")
    /\ UNCHANGED <<pureVars, respVars, loginVars, cfgVars, clientVars, envVars,
                   kind, attempt, sess, tok, https, logins, seen, waited>>

\* asyncio.sleep(delay) is over: the next iteration of the attempt loop.
NextAttempt(c) ==
    /\ pc[c] = "sleep"
    /\ IF attempt[c] + 1 < max_attempts
       THEN /\ attempt' = [attempt EXCEPT ![c] = @ + 1]
            /\ logins' = [logins EXCEPT ![c] = Append(@, 0)]
            /\ outcome' = [outcome EXCEPT ![c] = "none"]
            /\ seen' = [seen EXCEPT ![c] = "none"]
            /\ waited' = [waited EXCEPT ![c] = FALSE]
            /\ pc' = [pc EXCEPT ![c] = "ensure"]
            /\ UNCHANGED result
       ELSE /\ pc' = [pc EXCEPT ![c] = "done"]
            /\ result' = [result EXCEPT ![c] = RetryExhausted(last_error[c])]
            /\ UNCHANGED <<attempt, logins, outcome, seen, waited>>
    /\ UNCHANGED <<pureVars, respVars, loginVars, cfgVars, clientVars, envVars,
                   kind, sess, tok, last_error,
                   https, sleeps, first401>>

\* (mutant) close() does not ask who created the session
ClosesSessionAnyOwner == session # 0 /\ session \notin closed

\* if self._session and not self._session.closed and self._owns_session
ClosesSession == session # 0 /\ session \notin closed /\ owns_session

\* close(): the owned, open session is closed ...
CloseBegin ==
    /\ closer
    /\ closePc = "idle"
    /\ nCloses < MaxCloses
    /\ ClosesSession
    /\ closed' = closed \cup {session}
    /\ nCloses' = nCloses + 1
    /\ closePc' = "closing"
    /\ UNCHANGED <<pureVars, respVars, loginVars, cfgVars, frameVars, histVars, session, access_token, token_expires_at,
                   auth_lock, session_lock, now, nSessions, nLogins>>

\* ... and, once session.close() has returned, self._session = None.
CloseEnd ==
    /\ closePc = "closing"
    /\ session' = 0
    /\ closePc' = "idle"
    /\ UNCHANGED <<pureVars, respVars, loginVars, cfgVars, frameVars, histVars, closed, access_token, token_expires_at,
                   auth_lock, session_lock, now, nSessions, nLogins, nCloses>>

\* time.time() advances.
Tick ==
    /\ now < MaxTicks * TimeStep
    /\ now' = now + TimeStep
    /\ UNCHANGED <<pureVars, respVars, loginVars, cfgVars, clientVars, frameVars, histVars,
                   nSessions, nLogins, nCloses, closePc>>

Next ==
    \/ \E c \in Callers, k \in Kinds : StartCall(c, k)
    \/ \E c \in Callers : EnsureSessionFast(c)
    \/ \E c \in Callers : SessionLockAcquire(c)
    \/ \E c \in Callers : EnsureSessionLocked(c)
    \/ \E c \in Callers : GetTokenFast(c)
    \/ \E c \in Callers : AuthLockAcquire(c)
    \/ \E c \in Callers, x \in ExpiresInValues : LoginReturns(c, x)
    \/ \E c \in Callers, e \in LoginErrors : LoginRaises(c, e)
    \/ \E c \in Callers, p \in OkAnswers : ResponseOk(c, p)
    \/ \E c \in Callers, s \in HttpStatuses \ {200} : ResponseError(c, s)
    \/ \E c \in Callers, e \in AllTransportErrors : TransportError(c, e)
    \/ \E c \in Callers : ResolveRaises(c)
    \/ \E c \in Callers : NextAttempt(c)
    \/ CloseBegin
    \/ CloseEnd
    \/ Tick

Spec == Init /\ [][Next]_vars

\* ------------------------------------------------------------ progress
\* One step of the caller's call: the step after an await that has ended, with
\* whatever the endpoint or the login answered.
CallerStep(c) ==
    \/ EnsureSessionFast(c)
    \/ SessionLockAcquire(c)
    \/ EnsureSessionLocked(c)
    \/ GetTokenFast(c)
    \/ AuthLockAcquire(c)
    \/ \E x \in ExpiresInValues : LoginReturns(c, x)
    \/ \E e \in LoginErrors : LoginRaises(c, e)
    \/ \E p \in OkAnswers : ResponseOk(c, p)
    \/ \E st \in HttpStatuses \ {200} : ResponseError(c, st)
    \/ \E e \in AllTransportErrors : TransportError(c, e)
    \/ ResolveRaises(c)
    \/ NextAttempt(c)

\* Each caller makes one call.
FirstCall(c, k) == pc[c] = "idle" /\ StartCall(c, k)

LiveNext ==
    \/ \E c \in Callers, k \in Kinds : FirstCall(c, k)
    \/ \E c \in Callers : CallerStep(c)
    \/ CloseBegin
    \/ CloseEnd
    \/ Tick

\* Every HTTP request, login and sleep ends, and the event loop runs a coroutine
\* that can run; asyncio.Lock wakes its waiters in turn, so a caller that finds
\* the lock free again and again gets it.
Fairness ==
    \A c \in Callers :
        /\ WF_vars(CallerStep(c))
        /\ SF_vars(SessionLockAcquire(c))
        /\ SF_vars(AuthLockAcquire(c))

SpecLive == Init /\ [][LiveNext]_vars /\ Fairness

\* ======================================================= async_auth_oidc
\* One login, request by request.  Every response is drawn from what the identity
\* provider, the redirect target and the transport can answer.

DEFAULT_EXPIRES_IN == 3600

\* _fetch: what session.request raises instead of answering: a connection failure,
\* a disconnect, a socket timeout (subclasses of aiohttp.ClientError), or
\* asyncio.TimeoutError when ClientTimeout(total=timeout) runs out.
ClientErrors == {"ClientConnectionError", "ServerDisconnectedError", "ServerTimeoutError"}
FetchErrors == ClientErrors \cup {"TimeoutError"}
LoginStatuses == {200, 403, 500}

\* Bodies of the discovery document and of the token response.
\*   fmt: "empty", "garbage" (no JSON) or "json"
TokenBodies ==
    {[fmt |-> "empty", access_token |-> "", has_expires_in |-> FALSE, expires_in |-> 0,
      sub |-> ""],
     [fmt |-> "garbage", access_token |-> "", has_expires_in |-> FALSE, expires_in |-> 0,
      sub |-> ""],
     [fmt |-> "json", access_token |-> "", has_expires_in |-> FALSE, expires_in |-> 0,
      sub |-> ""],
     [fmt |-> "json", access_token |-> "tok1", has_expires_in |-> FALSE, expires_in |-> 0,
      sub |-> "sub-at"],
     [fmt |-> "json", access_token |-> "tok1", has_expires_in |-> TRUE, expires_in |-> 1800,
      sub |-> ""],
     [fmt |-> "json", access_token |-> "tok2", has_expires_in |-> TRUE, expires_in |-> 0,
      sub |-> ""]}
ConfigBodies == {"empty", "garbage", "json"}

\* Bodies the authorization GET ends with: nothing, the challenge page with
\* 'var SETTINGS = {...};', the same written 'var SETTINGS={...};', a challenge page
\* whose SETTINGS lacks csrf, a page without SETTINGS, a page whose SETTINGS is no
\* JSON.
AuthBodies ==
    {"empty", "challenge", "challenge_compact", "challenge_no_csrf", "page",
     "broken_settings"}

\* Bodies of the self-asserted POST, by the error signatures they contain, each
\* with what its detail says: a 'var GLOBALEX = {...}' object (whose Detail names
\* the password, or not, or which is no JSON), an "api": "GlobalException" marker
\* (with such an error-title), an AADB2C error code (with such a message), and the
\* phrases for a wrong password, an unknown account and a locked account.
MaxSignatures == 2
GlobalexObjects == {"GLOBALEX:password", "GLOBALEX:other", "GLOBALEX:broken"}
GlobalExceptions == {"GlobalException:password", "GlobalException:other"}
ErrorCodes == {"AADB2C:password", "AADB2C:other"}
Phrases == {"password_incorrect", "account_not_found", "account_locked"}
Signatures == GlobalexObjects \cup GlobalExceptions \cup ErrorCodes \cup Phrases
EmptyBody == {"empty"}
PostBodies ==
    {EmptyBody} \cup
    {b \in SUBSET Signatures :
        /\ Cardinality(b) <= MaxSignatures
        /\ Cardinality(b \cap GlobalexObjects) <= 1
        /\ Cardinality(b \cap GlobalExceptions) <= 1
        /\ Cardinality(b \cap ErrorCodes) <= 1}

\* Final URLs: whether the URL starts with redirect_uri, whether it has a fragment,
\* and the parameters of the fragment and of the query string.
NoParams == [code |-> "", error |-> FALSE, id_token |-> ""]
Url(at, frag, query) ==
    [at_redirect |-> at, has_fragment |-> frag # NoParams, fragment |-> frag,
     query |-> query]
FinalUrls ==
    {Url(TRUE, [NoParams EXCEPT !.code = "abc123"], NoParams),
     Url(TRUE, NoParams, [NoParams EXCEPT !.code = "q456"]),
     Url(TRUE, [NoParams EXCEPT !.code = "abc123", !.id_token = "valid"], NoParams),
     Url(TRUE, [NoParams EXCEPT !.code = "abc123", !.id_token = "forged"], NoParams),
     Url(TRUE, [NoParams EXCEPT !.id_token = "valid"], NoParams),
     Url(TRUE, [NoParams EXCEPT !.error = TRUE], NoParams),
     Url(TRUE, [NoParams EXCEPT !.error = TRUE], [NoParams EXCEPT !.code = "q456"]),
     Url(TRUE, NoParams, NoParams),
     [Url(TRUE, NoParams, [NoParams EXCEPT !.code = "q456"]) EXCEPT !.has_fragment = TRUE],
     Url(FALSE, NoParams, NoParams),
     Url(FALSE, [NoParams EXCEPT !.code = "abc123"], NoParams),
     Url(FALSE, [NoParams EXCEPT !.error = TRUE], NoParams)}

\* _parse_redirect_params: the fragment when there is one, else the query string.
ParseRedirectParams(url) == IF url.has_fragment THEN url.fragment ELSE url.query

\* (mutant) the sub of an id_token is taken without verification
ExtractSubFromIdTokenUnverified(id_token) == "sub-id"

\* _extract_sub_from_id_token: the sub of a token whose signature and claims verify.
ExtractSubFromIdToken(id_token) == IF id_token = "valid" THEN "sub-id" ELSE ""

\* _extract_auth_result: <<auth_code, sub_value>>
ExtractAuthResult(url) ==
    IF ~url.at_redirect THEN <<"", "">>
    ELSE LET p == ParseRedirectParams(url)
         IN <<p.code, IF p.id_token # "" THEN ExtractSubFromIdToken(p.id_token) ELSE "">>

\* (mutant) every page is taken for a challenge page
ExtractSettingsAlways(body) == {"transId", "csrf"}

\* _extract_settings: by slicing, then by the regular expression; the keys of the
\* dict found, {} when it returns None.
ExtractSettings(body) ==
    IF body \in {"challenge", "challenge_compact"} THEN {"transId", "csrf"}
    ELSE IF body = "challenge_no_csrf" THEN {"transId"}
    ELSE {}

\* _check_b2c_error_response: the detail of the first signature found, in the order
\* GLOBALEX, GlobalException, AADB2C code, phrases; "" for None.
CheckB2CErrorResponse(body) ==
    IF "GLOBALEX:password" \in body THEN "The password has expired"
    ELSE IF "GLOBALEX:other" \in body THEN "Unknown error"
    ELSE IF "GlobalException:password" \in body THEN "Invalid username or password"
    ELSE IF "GlobalException:other" \in body THEN "Authentication error"
    ELSE IF "AADB2C:password" \in body THEN "The credentials are not valid"
    ELSE IF "AADB2C:other" \in body THEN "The service is not available"
    ELSE IF "password_incorrect" \in body THEN "Your password is incorrect"
    ELSE IF "account_not_found" \in body THEN "Account not found with that email address"
    ELSE IF "account_locked" \in body THEN "Account is locked"
    ELSE ""

\* (mutant) no soft error is taken for a credential error
NamesCredentialsNever(detail) == FALSE

\* "password" in error_detail.lower() or "credential" in error_detail.lower()
NamesCredentials(detail) ==
    detail \in {"The password has expired", "Invalid username or password",
                "The credentials are not valid", "Your password is incorrect"}

\* The PKCE value a request carries: auth_params of _get_auth has the
\* code_challenge, token_data of _get_access the code_verifier; the parameters of
\* the other requests have neither.
AuthParams == "code_challenge"

\* (mutant) token_data carries the challenge
TokenDataChallenge == "code_challenge"

TokenData == "code_verifier"

Req(to, code, pkce) == [to |-> to, code |-> code, pkce |-> pkce]
Send(to, code, pkce) ==
    /\ requests' = Append(requests, Req(to, code, pkce))
    /\ lpc' = to

NoUrl == Url(FALSE, NoParams, NoParams)
\* _fetch returns (content, str(response.url), response.status)
Fetched(status, body, url) ==
    fetched' = Append(fetched, [status |-> status, body |-> body, url |-> url])

LRaise(cls) ==
    /\ lpc' = "raised"
    /\ lresult' = [kind |-> cls, token |-> "", expires_in |-> 0]
    /\ UNCHANGED requests

\* _fetch: aiohttp.ClientError becomes CannotConnectError; anything else passes, and
\* passes the except aiohttp.ClientError of async_auth_oidc as well.
FetchRaises(e) == LRaise(IF e \in ClientErrors THEN "CannotConnectError" ELSE e)

\* (mutant) only a server error status is a failure
FailedStatusServerOnly(status) == status >= 500

\* status != 200, as _get_config, _get_auth and _get_access test it
FailedStatus(status) == status # 200

\* PKCE pair generated, _get_config fetches the discovery document.
LStart ==
    /\ lpc = "start"
    /\ Send("discover", "", "none")
    /\ UNCHANGED <<fetched, settings, auth_code, login_data, lresult>>

LFetchFails(e) ==
    /\ lpc \in {"discover", "authorize", "post", "confirm", "exchange"}
    /\ FetchRaises(e)
    /\ UNCHANGED <<fetched, settings, auth_code, login_data>>

\* _get_config, then _get_auth sends the authorization GET with the challenge.
LDiscover(status, body) ==
    /\ lpc = "discover"
    /\ Fetched(status, body, NoUrl)
    /\ IF FailedStatus(status) \/ body = "empty" THEN LRaise("CannotConnectError")
       ELSE IF body = "garbage" THEN LRaise("JSONDecodeError")
       ELSE Send("authorize", "", AuthParams) /\ UNCHANGED lresult
    /\ UNCHANGED <<settings, auth_code, login_data>>

\* async_auth_oidc once _get_auth has returned (auth_code, sub_value).
AfterAuth(code, sub) ==
    /\ login_data' = IF sub # "" THEN sub ELSE login_data
    /\ auth_code' = code
    /\ IF code = "" THEN LRaise("CannotConnectError")
       ELSE Send("exchange", code, TokenData) /\ UNCHANGED lresult

\* _get_auth after the authorization GET; _post_credentials up to its request.
LAuthorize(status, body, url) ==
    /\ lpc = "authorize"
    /\ Fetched(status, body, url)
    /\ IF FailedStatus(status) \/ body = "empty"
       THEN LRaise("CannotConnectError") /\ UNCHANGED <<settings, auth_code, login_data>>
       ELSE IF ExtractSettings(body) = {}
       THEN AfterAuth(ExtractAuthResult(url)[1], ExtractAuthResult(url)[2])
            /\ UNCHANGED settings
       ELSE /\ settings' = ExtractSettings(body)
            /\ IF {"transId", "csrf"} \subseteq ExtractSettings(body)
               THEN Send("post", "", "none") /\ UNCHANGED lresult
               ELSE LRaise("KeyError")
            /\ UNCHANGED <<auth_code, login_data>>

\* (mutant) the status of the POST is not looked at
PostRejectedNever(status) == FALSE

\* _post_credentials: status != 200
PostRejected(status) == status # 200

\* _post_credentials after its POST, then _confirm_signin sends its GET.
LPostCredentials(status, body) ==
    /\ lpc = "post"
    /\ Fetched(status, body, NoUrl)
    /\ IF PostRejected(status) THEN LRaise("InvalidAuthError")
       ELSE IF body # EmptyBody /\ CheckB2CErrorResponse(body) # ""
       THEN IF NamesCredentials(CheckB2CErrorResponse(body))
            THEN LRaise("InvalidAuthError")
            ELSE LRaise("CannotConnectError")
       ELSE Send("confirm", "", "none") /\ UNCHANGED lresult
    /\ UNCHANGED <<settings, auth_code, login_data>>

\* (mutant) every failed confirmation is a connectivity failure
ConfirmFailureCannotConnect(status) == "CannotConnectError"

\* _confirm_signin, what a status other than 200 raises
ConfirmFailure(status) ==
    IF status = 403 THEN "InvalidAuthError" ELSE "CannotConnectError"

\* _confirm_signin after its GET.
LConfirmSignin(status, url) ==
    /\ lpc = "confirm"
    /\ Fetched(status, "page", url)
    /\ IF status # 200
       THEN /\ LRaise(ConfirmFailure(status))
            /\ UNCHANGED <<auth_code, login_data>>
       ELSE IF ExtractAuthResult(url)[1] = "" /\ ParseRedirectParams(url).error
       THEN LRaise("InvalidAuthError") /\ UNCHANGED <<auth_code, login_data>>
       ELSE AfterAuth(ExtractAuthResult(url)[1], ExtractAuthResult(url)[2])
    /\ UNCHANGED settings

\* (mutant) the default replaces every falsy expires_in: tokens.get(...) or 3600
ExpiresInOrDefault(body) ==
    IF body.has_expires_in /\ body.expires_in # 0 THEN body.expires_in
    ELSE DEFAULT_EXPIRES_IN

\* tokens.get("expires_in", 3600)
ExpiresIn(body) ==
    IF body.has_expires_in THEN body.expires_in ELSE DEFAULT_EXPIRES_IN

\* _get_access, then the end of async_auth_oidc.
LExchange(status, body) ==
    /\ lpc = "exchange"
    /\ Fetched(status, body, NoUrl)
    /\ IF FailedStatus(status) \/ body.fmt = "empty"
       THEN LRaise("CannotConnectError") /\ UNCHANGED login_data
       ELSE IF body.fmt = "garbage"
       THEN LRaise("JSONDecodeError") /\ UNCHANGED login_data
       ELSE IF body.access_token = ""
       THEN LRaise("CannotConnectError") /\ UNCHANGED login_data
       ELSE /\ lpc' = "returned"
            /\ lresult' = [kind |-> "ok", token |-> body.access_token,
                           expires_in |-> ExpiresIn(body)]
            /\ login_data' = IF login_data = "" /\ body.sub # "" THEN body.sub
                             ELSE login_data
            /\ UNCHANGED requests
    /\ UNCHANGED <<settings, auth_code>>

ClientUnchanged == UNCHANGED <<cfgVars, clientVars, envVars, frameVars, histVars, respVars, pureVars>>

LoginNext ==
    \/ LStart /\ ClientUnchanged
    \/ \E e \in FetchErrors : LFetchFails(e) /\ ClientUnchanged
    \/ \E st \in LoginStatuses, b \in ConfigBodies : LDiscover(st, b) /\ ClientUnchanged
    \/ \E st \in LoginStatuses, b \in AuthBodies, u \in FinalUrls :
           LAuthorize(st, b, u) /\ ClientUnchanged
    \/ \E st \in LoginStatuses, b \in PostBodies : LPostCredentials(st, b) /\ ClientUnchanged
    \/ \E st \in LoginStatuses, u \in FinalUrls : LConfirmSignin(st, u) /\ ClientUnchanged
    \/ \E st \in LoginStatuses, b \in TokenBodies : LExchange(st, b) /\ ClientUnchanged

\* A client that is not called while the login is looked at.
ClientIdle ==
    /\ InitRace
    /\ async_login = "auth.py"
    /\ retry_on_connection_errors = TRUE /\ retry_on_timeout = TRUE
    /\ closed = {} /\ access_token = 0 /\ token_expires_at = 0
    /\ auth_lock = 0 /\ session_lock = 0
    /\ now = 0 /\ nLogins = 0 /\ nCloses = 0 /\ closePc = "idle"
    /\ pc = [c \in Callers |-> "idle"]
    /\ kind = [c \in Callers |-> "graphql"]
    /\ attempt = [c \in Callers |-> 0]
    /\ sess = [c \in Callers |-> 0]
    /\ tok = [c \in Callers |-> 0]
    /\ last_error = [c \in Callers |-> NoError]
    /\ result = [c \in Callers |-> NoResult]
    /\ https = [c \in Callers |-> 0]
    /\ sleeps = [c \in Callers |-> 0]
    /\ logins = [c \in Callers |-> <<>>]
    /\ outcome = [c \in Callers |-> "none"]
    /\ first401 = [c \in Callers |-> FALSE]
    /\ seen = [c \in Callers |-> "none"]
    /\ waited = [c \in Callers |-> FALSE]
    /\ response = [c \in Callers |-> NoResponse]
    /\ PureIdle

\* async_auth_oidc is entered with the caller's login_data, empty or holding a sub.
LoginInit ==
    /\ ClientIdle
    /\ lpc = "start"
    /\ requests = <<>>
    /\ fetched = <<>>
    /\ settings = {}
    /\ auth_code = ""
    /\ login_data \in {"", "sub-old"}
    /\ lresult = NoLoginResult

SpecLogin == LoginInit /\ [][LoginNext]_vars

\* ============================================ functions that await nothing
\* One call of a function of the library that touches no client state: the
\* arguments are drawn at the start, the call is one step.

\* ---- NationalGridConfig.build_headers
MaxHeaders == 2

\* Header names a caller may put in default_headers or in the per-call headers:
\* the four names the client computes, a spelling of one of them in another
\* case (a different dict key) and a name of the caller's own.
UserNames == {"Accept", "Content-Type", "Authorization", "authorization",
              "ocp-apim-subscription-key", "X-Test"}
UserValues == {"1", "2"}
HeaderMaps ==
    UNION {[D -> UserValues] : D \in {E \in SUBSET UserNames : Cardinality(E) <= MaxHeaders}}
AccessTokens == {"None", "abc"}
ContentTypes == {"None", "application/json"}
SubscriptionKeys == {"", "sub-key"}

\* Python truth of an optional string
Truthy(v) == v \notin {"None", ""}

\* {n: v}
Header(n, v) == [k \in {n} |-> v]

\* (mutant) the entry already there is kept
UpdateKeepsFirst(h, m) ==
    [n \in DOMAIN h \cup DOMAIN m |-> IF n \in DOMAIN h THEN h[n] ELSE m[n]]

\* h.update(m), h[n] = v
Update(h, m) ==
    [n \in DOMAIN h \cup DOMAIN m |-> IF n \in DOMAIN m THEN m[n] ELSE h[n]]

\* (token is the access_token argument)
BuildHeaders(subscription_key, default_headers, extra_headers, token, content_type) ==
    LET h0 == Header("Accept", "application/json")
        h1 == IF Truthy(content_type)
              THEN Update(h0, Header("Content-Type", content_type)) ELSE h0
        h2 == IF Truthy(token)
              THEN Update(h1, Header("Authorization", "Bearer " \o token)) ELSE h1
        h3 == IF Truthy(subscription_key)
              THEN Update(h2, Header("ocp-apim-subscription-key", subscription_key)) ELSE h2
        h4 == Update(h3, default_headers)
    IN  IF DOMAIN extra_headers # {} THEN Update(h4, extra_headers) ELSE h4

BuildHeadersArgs ==
    [fn : {"build_headers"}, subscription_key : SubscriptionKeys,
     default_headers : HeaderMaps, extra_headers : HeaderMaps,
     access_token : AccessTokens, content_type : ContentTypes]

ReturnValue(v) == [done |-> TRUE, raised |-> "none", value |-> v]

CallBuildHeaders ==
    /\ args.fn = "build_headers"
    /\ ~ret.done
    /\ ret' = ReturnValue(BuildHeaders(args.subscription_key, args.default_headers,
                                       args.extra_headers, args.access_token,
                                       args.content_type))
    /\ UNCHANGED <<args, respVars, loginVars, cfgVars, clientVars, envVars, frameVars, histVars>>

\* ---- RealtimeMeterInfo.to_request, NationalGridClient.realtime_meter_info
\* A string is the sequence of its characters.
EmptyString == <<>>
\* "2024-02-29 07:05:09": the documented format
Exact == <<"2", "0", "2", "4", "-", "0", "2", "-", "2", "9", " ", "0", "7", ":", "0", "5", ":", "0", "9">>
\* "2024-2-9 7:5:9": no leading zeros
Unpadded == <<"2", "0", "2", "4", "-", "2", "-", "9", " ", "7", ":", "5", ":", "9">>
\* "2024-02-29  07:05:09": two blanks between date and time
WideGap == <<"2", "0", "2", "4", "-", "0", "2", "-", "2", "9", " ", " ", "0", "7", ":", "0", "5", ":", "0", "9">>
\* "2024-02-29T07:05:09": ISO 8601 with T
IsoT == <<"2", "0", "2", "4", "-", "0", "2", "-", "2", "9", "T", "0", "7", ":", "0", "5", ":", "0", "9">>
\* "2024-02-29": no time
DateOnly == <<"2", "0", "2", "4", "-", "0", "2", "-", "2", "9">>
\* "2024-13-01 07:05:09": no such month
Month13 == <<"2", "0", "2", "4", "-", "1", "3", "-", "0", "1", " ", "0", "7", ":", "0", "5", ":", "0", "9">>
\* "2024-02-30 07:05:09": no such day
Feb30 == <<"2", "0", "2", "4", "-", "0", "2", "-", "3", "0", " ", "0", "7", ":", "0", "5", ":", "0", "9">>
\* "2024-02-29 07:05:60": a leap second
Second60 == <<"2", "0", "2", "4", "-", "0", "2", "-", "2", "9", " ", "0", "7", ":", "0", "5", ":", "6", "0">>
\* "2024-02-29 07:05:09Z": text after the seconds
Trailing == <<"2", "0", "2", "4", "-", "0", "2", "-", "2", "9", " ", "0", "7", ":", "0", "5", ":", "0", "9", "Z">>
StartDateTimes == {EmptyString, Exact, Unpadded, WideGap, IsoT, DateOnly, Month13, Feb30, Second60, Trailing}

\* params: None or empty (no key), or a map that sets StartDateTime itself
ParamsMaps == {<<>>} \cup {[k \in {"StartDateTime"} |-> v] : v \in {EmptyString, Exact, Unpadded, IsoT}}

Digits == {"0", "1", "2", "3", "4", "5", "6", "7", "8", "9"}
DigitValue ==
    [ch \in Digits |->
        CASE ch = "0" -> 0 [] ch = "1" -> 1 [] ch = "2" -> 2 [] ch = "3" -> 3 [] ch = "4" -> 4
          [] ch = "5" -> 5 [] ch = "6" -> 6 [] ch = "7" -> 7 [] ch = "8" -> 8 [] ch = "9" -> 9]
Whitespace == {" "}

\* the character of s at i, "$" past its end
At(s, i) == IF i \in 1..Len(s) THEN s[i] ELSE "$"
Digit(s, i) == At(s, i) \in Digits
\* [lo-hi]
Between(s, i, lo, hi) == Digit(s, i) /\ DigitValue[s[i]] \in lo..hi

\* _strptime.TimeRE: the pattern of directive dv matches the n characters of s at i
DirectiveMatches(dv, s, i, n) ==
    CASE dv = "Y" -> n = 4 /\ \A k \in 0..3 : Digit(s, i + k)
      [] dv = "m" -> \/ n = 2 /\ At(s, i) = "1" /\ Between(s, i + 1, 0, 2)
                     \/ n = 2 /\ At(s, i) = "0" /\ Between(s, i + 1, 1, 9)
                     \/ n = 1 /\ Between(s, i, 1, 9)
      [] dv = "d" -> \/ n = 2 /\ At(s, i) = "3" /\ Between(s, i + 1, 0, 1)
                     \/ n = 2 /\ Between(s, i, 1, 2) /\ Digit(s, i + 1)
                     \/ n = 2 /\ At(s, i) = "0" /\ Between(s, i + 1, 1, 9)
                     \/ n = 1 /\ Between(s, i, 1, 9)
                     \/ n = 2 /\ At(s, i) = " " /\ Between(s, i + 1, 1, 9)
      [] dv = "H" -> \/ n = 2 /\ At(s, i) = "2" /\ Between(s, i + 1, 0, 3)
                     \/ n = 2 /\ Between(s, i, 0, 1) /\ Digit(s, i + 1)
                     \/ n = 1 /\ Digit(s, i)
      [] dv = "M" -> \/ n = 2 /\ Between(s, i, 0, 5) /\ Digit(s, i + 1)
                     \/ n = 1 /\ Digit(s, i)
      [] dv = "S" -> \/ n = 2 /\ At(s, i) = "6" /\ Between(s, i + 1, 0, 1)
                     \/ n = 2 /\ Between(s, i, 0, 5) /\ Digit(s, i + 1)
                     \/ n = 1 /\ Digit(s, i)

\* The ways "%Y-%m-%d %H:%M:%S" matches all of s: the lengths of the month, the
\* day, the run of whitespace (\s+), the hour, the minute and the second.  A
\* match that leaves text over is "unconverted data remains".
Layouts(s) ==
    {l \in [m : 1..2, d : 1..2, w : 1..Len(s), H : 1..2, M : 1..2, S : 1..2] :
        LET pm == 6
            pd == pm + l.m + 1
            pw == pd + l.d
            pH == pw + l.w
            pM == pH + l.H + 1
            pS == pM + l.M + 1
        IN  /\ DirectiveMatches("Y", s, 1, 4) /\ At(s, 5) = "-"
            /\ DirectiveMatches("m", s, pm, l.m) /\ At(s, pm + l.m) = "-"
            /\ DirectiveMatches("d", s, pd, l.d)
            /\ \A i \in pw..(pH - 1) : At(s, i) \in Whitespace
            /\ DirectiveMatches("H", s, pH, l.H) /\ At(s, pH + l.H) = ":"
            /\ DirectiveMatches("M", s, pM, l.M) /\ At(s, pM + l.M) = ":"
            /\ DirectiveMatches("S", s, pS, l.S)
            /\ pS + l.S - 1 = Len(s)}

\* int() of the n characters of s at i (a blank pads the day)
RECURSIVE Number(_, _, _)
Number(s, i, n) ==
    IF n = 0 THEN 0
    ELSE 10 * Number(s, i, n - 1)
         + (IF s[i + n - 1] \in Digits THEN DigitValue[s[i + n - 1]] ELSE 0)

DaysInMonth(year, month) ==
    IF month = 2
    THEN IF year % 4 = 0 /\ (year % 100 # 0 \/ year % 400 = 0) THEN 29 ELSE 28
    ELSE IF month \in {4, 6, 9, 11} THEN 30 ELSE 31

\* datetime.strptime(value, "%Y-%m-%d %H:%M:%S") returns; it raises ValueError otherwise
Strptime(value) ==
    \E l \in Layouts(value) :
        LET year == Number(value, 1, 4)
            month == Number(value, 6, l.m)
            day == Number(value, 7 + l.m, l.d)
            second == Number(value, Len(value) - l.S + 1, l.S)
        IN  /\ year >= 1
            /\ day <= DaysInMonth(year, month)
            /\ second <= 59

\* _validate_start_datetime returns (it raises ValueError otherwise)
ValidateStartDateTime(value) == value # EmptyString /\ Strptime(value)

Raise(cls) == [done |-> TRUE, raised |-> cls, value |-> <<>>]

\* RealtimeMeterInfo.to_request: the RestRequest, or the ValueError raised
ToRequest(start_datetime, params) ==
    IF start_datetime = EmptyString
    THEN Raise("ValueError")
    ELSE LET merged_params ==
                 IF DOMAIN params # {}
                 THEN Update(Header("StartDateTime", start_datetime), params)
                 ELSE Header("StartDateTime", start_datetime)
         IN  IF ValidateStartDateTime(merged_params["StartDateTime"])
             THEN ReturnValue([method |-> "GET", params |-> merged_params])
             ELSE Raise("ValueError")

RealtimeMeterInfoArgs ==
    [fn : {"realtime_meter_info"}, start_datetime : StartDateTimes, params : ParamsMaps]

\* realtime_meter_info: the request is built, then request_rest is awaited.
CallRealtimeMeterInfo ==
    /\ args.fn = "realtime_meter_info"
    /\ ~ret.done
    /\ ret' = ToRequest(args.start_datetime, args.params)
    /\ IF ret'.raised = "none"
       THEN EnterCall(1, "rest")
       ELSE UNCHANGED <<respVars, loginVars, cfgVars, clientVars, envVars, frameVars, histVars>>
    /\ UNCHANGED args

\* ---- NationalGridClient._calculate_retry_delay
\* Seconds are counted in sixteenths, so that a quarter of a delay of whole
\* seconds, times a random number given in eighths, is a whole number.
MaxAttemptIndex == 3
Second == 16
\* random.random() is in [0, 1): k stands for k/8
RandomEighths == 0..7
\* RetryConfig sets no limits on its numbers: they may be zero or negative.
InitialDelays == {-1 * Second, 0, 1 * Second, 2 * Second}
MaxDelays == {-1 * Second, 0, 1 * Second, 10 * Second}
ExponentialBases == {0, 1, 2, 3}

RECURSIVE Power(_, _)
Power(base, n) == IF n = 0 THEN 1 ELSE base * Power(base, n - 1)
Minimum(a, b) == IF a <= b THEN a ELSE b
Maximum(a, b) == IF a >= b THEN a ELSE b

\* min(initial_delay * exponential_base ** attempt, max_delay)
CappedDelay(n, initial_delay, max_delay, exponential_base) ==
    Minimum(initial_delay * Power(exponential_base, n), max_delay)

\* (mutant) the floor at zero is left out
CalculateRetryDelayNoFloor(n, initial_delay, max_delay, exponential_base, random) ==
    LET delay == CappedDelay(n, initial_delay, max_delay, exponential_base)
    IN  delay + (delay * (2 * random - 8)) \div 32

\* _calculate_retry_delay (n is the attempt); jitter = delay * 0.25 * (2 * random.random() - 1)
CalculateRetryDelay(n, initial_delay, max_delay, exponential_base, random) ==
    LET delay == CappedDelay(n, initial_delay, max_delay, exponential_base)
        jitter == (delay * (2 * random - 8)) \div 32
        delay_with_jitter == delay + jitter
    IN  Maximum(0, delay_with_jitter)

CalculateRetryDelayArgs ==
    [fn : {"_calculate_retry_delay"}, attempt : 0..MaxAttemptIndex,
     initial_delay : InitialDelays, max_delay : MaxDelays,
     exponential_base : ExponentialBases, random : RandomEighths]

CallCalculateRetryDelay ==
    /\ args.fn = "_calculate_retry_delay"
    /\ ~ret.done
    /\ ret' = ReturnValue(CalculateRetryDelay(args.attempt, args.initial_delay, args.max_delay,
                                              args.exponential_base, args.random))
    /\ UNCHANGED <<args, respVars, loginVars, cfgVars, clientVars, envVars, frameVars, histVars>>

PureArgs == BuildHeadersArgs \cup RealtimeMeterInfoArgs \cup CalculateRetryDelayArgs

PureNext ==
    \/ CallBuildHeaders
    \/ CallRealtimeMeterInfo
    \/ CallCalculateRetryDelay

\* A fresh client with the default retry count, no caller under way, and the
\* arguments of the one call looked at.
PureInit ==
    /\ ClientInit
    /\ callers = {1}
    /\ credentials = TRUE
    /\ async_login = "auth.py"
    /\ max_attempts = DefaultMaxAttempts
    /\ session = 0
    /\ LoginIdle
    /\ args \in PureArgs
    /\ ret = NoReturn

SpecPure == PureInit /\ [][PureNext]_vars

\* ================================================================ claims
StatusOf(o) == IF o = "400" THEN 400 ELSE IF o = "401" THEN 401 ELSE 500
\* The error an attempt that ended with outcome o hands to the except-handler.
ExpectedError(k, o) ==
    IF o \in {"400", "401", "500"}
    THEN [cls |-> ApiErrorOf(k), status |-> StatusOf(o), orig |-> "ClientResponseError"]
    ELSE [cls |-> o, status |-> 0, orig |-> "none"]
LoginsOfAttempt(c) == logins[c][attempt[c] + 1]
PastToken(c) == pc[c] \in {"login", "resolve", "http", "sleep", "done"}

C3_NonRetryableEnds ==
    \A c \in Callers :
        (outcome[c] = "400" /\ attempt[c] < max_attempts - 1) =>
            /\ pc[c] = "done"
            /\ result[c].exc = ApiErrorOf(kind[c]) /\ result[c].status = 400
            /\ sleeps[c] = attempt[c]
            /\ https[c] = attempt[c] + 1

C3_Witness ==
    /\ max_attempts = 3 /\ outcome[1] = "400" /\ attempt[1] = 0
    /\ pc[1] = "done" /\ https[1] = 1 /\ sleeps[1] = 0

\* C4: a failure of the last permitted attempt, whatever its cause, raises
\* RetryExhaustedError with attempts = max_attempts (the attempts started) and
\* last_error the error of that attempt.
C4_Exhausted ==
    \A c \in Callers :
        (outcome[c] \notin {"none", "200"} /\ attempt[c] = max_attempts - 1) =>
            /\ pc[c] = "done"
            /\ result[c].exc = "RetryExhaustedError"
            /\ result[c].attempts = max_attempts
            /\ Len(logins[c]) = max_attempts
            /\ result[c].last = ExpectedError(kind[c], outcome[c])

C4_Witness ==
    /\ max_attempts = 2 /\ pc[1] = "done" /\ outcome[1] = "500" /\ https[1] = 2
    /\ result[1].exc = "RetryExhaustedError" /\ result[1].attempts = 2
    /\ result[1].last.cls = "GraphQLError" /\ result[1].last.status = 500

\* C5: a 500 with attempts remaining is followed by a backoff sleep and a retry, and
\* a call that returns a response has issued exactly attempt + 1 requests, slept
\* once per failed attempt, and raised nothing.
C5_RetryThenSuccess ==
    \A c \in Callers :
        /\ (outcome[c] = "500" /\ attempt[c] < max_attempts - 1) =>
               (pc[c] = "sleep" /\ result[c] = NoResult)
        /\ (pc[c] = "done" /\ outcome[c] = "200") =>
               /\ result[c] = Returned
               /\ https[c] = attempt[c] + 1
               /\ sleeps[c] = attempt[c]

C5_Witness ==
    /\ pc[1] = "done" /\ result[1] = Returned /\ attempt[1] = 2 /\ https[1] = 3
    /\ last_error[1].status = 500

\* C6: a call never starts more than max_attempts attempts nor issues more than
\* max_attempts requests, and no backoff sleep (retry) is scheduled on the attempt of
\* index max_attempts - 1.
C6_AttemptBound ==
    \A c \in Callers :
        /\ attempt[c] <= max_attempts - 1
        /\ Len(logins[c]) <= max_attempts
        /\ https[c] <= max_attempts
        /\ pc[c] = "sleep" => attempt[c] < max_attempts - 1

C6_Witness ==
    /\ pc[1] = "done" /\ attempt[1] = max_attempts - 1 /\ https[1] = max_attempts
    /\ max_attempts = DefaultMaxAttempts
    /\ outcome[1] = "TimeoutError" /\ result[1].exc = "RetryExhaustedError"

\* C7: on a client constructed without a session, as long as close() has not been
\* called, at most one session has been created and every caller holds that one.
C7_OneSession ==
    (owns_session /\ nCloses = 0) =>
        /\ nSessions <= 1
        /\ \A c \in Callers : sess[c] # 0 => (sess[c] = 1 /\ session = 1)

\* Caller 2 found no session before caller 1 created one, and now holds the lock.
C7_Witness ==
    /\ callers = Callers /\ owns_session /\ nCloses = 0
    /\ sess[1] = 1 /\ session = 1 /\ pc[2] = "session_cs"

\* C8 as claimed: a caller that was blocked on the auth lock while a login ran never
\* runs a login of its own (the login is performed once, its outcome shared).
C8_LoginOncePerWait == \A c \in Callers : pc[c] = "login" => ~waited[c]

\* C8 as amended: at most one login runs at a time and none while a fresh token is
\* cached; a caller that was blocked on the auth lock during a login, on getting the
\* lock, takes the cached token without a login if that token is fresh, and runs a
\* login of its own if the cache is empty or stale.
C8_BlockedCallers ==
    /\ [](Cardinality({c \in Callers : pc[c] = "login"}) <= 1)
    /\ [](\A c \in Callers : pc[c] = "login" => ~Fresh)
    /\ [][\A c \in Callers :
            (waited[c] /\ pc[c] = "auth_lock" /\ pc'[c] # "auth_lock") =>
                IF Fresh
                THEN nLogins' = nLogins /\ pc'[c] = "http" /\ tok'[c] = access_token
                ELSE nLogins' = nLogins + 1 /\ pc'[c] = "login"]_vars

\* Caller 2 was blocked during login 1 and has sent its request with token 1.
C8_Witness ==
    /\ callers = Callers /\ waited[2] /\ pc[2] = "http"
    /\ logins[2] = <<0>> /\ tok[2] = 1 /\ nLogins = 1

\* C9 as claimed: the cached token and its expiry change only while the auth lock is
\* held, and the session reference only while the session lock is held.
C9_WritesUnderLocks ==
    [][/\ (access_token' # access_token \/ token_expires_at' # token_expires_at)
            => auth_lock # 0
       /\ session' # session => session_lock # 0]_vars

\* ---- C10
\* The authorization GET is the second request of a login, so its answer is
\* fetched[2]; the code X the final URL carries is the one of its fragment when it
\* has a fragment, else the one of its query string.
AuthorizationFetched == Len(fetched) >= 2
CodeCarried == ParseRedirectParams(fetched[2].url).code
AtRedirectWithCode ==
    /\ AuthorizationFetched
    /\ fetched[2].url.at_redirect
    /\ CodeCarried # ""
SentTo(to) == \E i \in 1..Len(requests) : requests[i].to = to

\* C10 (as stated): once the authorization GET has ended at a URL that starts with
\* the redirect URI and carries code=X, no credential POST and no confirm-signin
\* GET is ever sent, and the request that follows the authorization GET is the token
\* exchange with code X.
C10_ShortCircuit ==
    AtRedirectWithCode =>
        /\ ~SentTo("post")
        /\ ~SentTo("confirm")
        /\ Len(requests) >= 3
        /\ requests[3].to = "exchange"
        /\ requests[3].code = CodeCarried

\* C10 (what the code does): the short circuit is taken on the page, not on the URL.
\* When the authorization GET answers 200 with a non-empty body from which no
\* SETTINGS is extracted, and its final URL starts with the redirect URI and carries
\* code=X, no credential POST and no confirm-signin GET is sent and the next request
\* is the token exchange with code X and the code verifier.
C10_ShortCircuitOnPage ==
    (/\ AtRedirectWithCode
     /\ fetched[2].status = 200
     /\ fetched[2].body # "empty"
     /\ ExtractSettings(fetched[2].body) = {}) =>
        /\ ~SentTo("post")
        /\ ~SentTo("confirm")
        /\ Len(requests) >= 3
        /\ requests[3] = Req("exchange", CodeCarried, "code_verifier")

\* The short circuit taken, up to the token: redirect_uri#code=abc123 on a page
\* without SETTINGS, and the login returned.
C10_Witness ==
    /\ AtRedirectWithCode
    /\ fetched[2].status = 200
    /\ ExtractSettings(fetched[2].body) = {}
    /\ fetched[2].url.has_fragment
    /\ CodeCarried = "abc123"
    /\ lpc = "returned"
    /\ ~SentTo("post")

\* ---- C11
\* With a challenge page the credential POST is the third request of the login and
\* its answer fetched[3].
PostFetched == Len(fetched) >= 3 /\ requests[3].to = "post"
PostSaysBadPassword ==
    /\ PostFetched
    /\ fetched[3].status = 200
    /\ "password_incorrect" \in fetched[3].body
\* Signatures found before the phrases, whose detail names no password or credential.
OtherErrors == {"GLOBALEX:other", "GlobalException:other", "AADB2C:other"}

\* C11 (as stated): whenever the credential POST answers 200 with a body containing
\* "Your password is incorrect", the login fails with InvalidAuth and neither the
\* confirm-signin GET nor the token exchange is sent.
C11_BadPasswordIsInvalidAuth ==
    PostSaysBadPassword =>
        /\ lresult.kind = "InvalidAuthError"
        /\ ~SentTo("confirm")
        /\ ~SentTo("exchange")

\* C11 (amended): such a POST always ends the login with no confirm-signin GET and
\* no token exchange; the failure is InvalidAuth when the body has no GLOBALEX
\* object, GlobalException marker or AADB2C code whose detail names neither password
\* nor credential, and is InvalidAuth or CannotConnect otherwise.
C11_BadPassword ==
    PostSaysBadPassword =>
        /\ lpc = "raised"
        /\ ~SentTo("confirm")
        /\ ~SentTo("exchange")
        /\ lresult.kind \in {"InvalidAuthError", "CannotConnectError"}
        /\ fetched[3].body \cap OtherErrors = {} => lresult.kind = "InvalidAuthError"

\* The phrase alone, answered 200: InvalidAuth.
C11_Witness ==
    /\ PostFetched
    /\ fetched[3].status = 200
    /\ fetched[3].body = {"password_incorrect"}
    /\ lresult.kind = "InvalidAuthError"

\* ---- C12
\* C12 (as stated): whenever the credential POST answers 200 with a page saying that
\* the account was not found or is locked, the login fails with InvalidAuth.
C12_NotFoundOrLockedIsInvalidAuth ==
    (/\ PostFetched
     /\ fetched[3].status = 200
     /\ fetched[3].body \cap {"account_not_found", "account_locked"} # {}) =>
        lresult.kind = "InvalidAuthError"

\* A 200 page saying only that the account is locked: the login raised
\* CannotConnectError.
C12_Witness ==
    /\ PostFetched
    /\ fetched[3].status = 200
    /\ fetched[3].body = {"account_locked"}
    /\ lresult.kind = "CannotConnectError"

\* ---- C13
\* The login reaches the extraction of the result with the final URL of the
\* authorization GET when that GET answered 200 with a page without SETTINGS, and
\* with the final URL of the confirm-signin GET (the fourth request) when that GET
\* answered 200.
ExtractsAfterAuthorize ==
    /\ AuthorizationFetched
    /\ fetched[2].status = 200
    /\ fetched[2].body # "empty"
    /\ ExtractSettings(fetched[2].body) = {}
ExtractsAfterConfirm ==
    /\ Len(fetched) >= 4
    /\ requests[4].to = "confirm"
    /\ fetched[4].status = 200
\* What the claim says of a login that extracted its result from url.
NoCodeOutcome(url) ==
    ParseRedirectParams(url).code = "" =>
        /\ ~SentTo("exchange")
        /\ lresult.kind = IF ParseRedirectParams(url).error THEN "InvalidAuthError"
                          ELSE "CannotConnectError"

\* C13 (as stated): on both ways to the extraction, a final URL without code ends
\* the login with InvalidAuth when it carries an error parameter and with
\* CannotConnect when it does not, and no token exchange is sent.
C13_NoCodeFails ==
    /\ ExtractsAfterAuthorize => NoCodeOutcome(fetched[2].url)
    /\ ExtractsAfterConfirm => NoCodeOutcome(fetched[4].url)

\* C13 (what the code does): after confirm-signin the claim holds; after the
\* authorization GET a final URL without code ends the login with CannotConnect
\* whether or not it carries an error parameter; no token exchange is sent.
C13_NoCodeFailsAfterConfirm ==
    /\ ExtractsAfterConfirm => NoCodeOutcome(fetched[4].url)
    /\ (ExtractsAfterAuthorize /\ ParseRedirectParams(fetched[2].url).code = "") =>
           (~SentTo("exchange") /\ lresult.kind = "CannotConnectError")

\* The authorization GET ended at redirect_uri#error=..., on a page without
\* SETTINGS: the login raised CannotConnectError.
C13_Witness ==
    /\ ExtractsAfterAuthorize
    /\ fetched[2].url.at_redirect
    /\ ParseRedirectParams(fetched[2].url).error
    /\ ParseRedirectParams(fetched[2].url).code = ""
    /\ lresult.kind = "CannotConnectError"

\* ---- C14
\* The token exchange is the last request of a login that sent one, and its answer
\* the last one fetched.
ExchangeFetched ==
    /\ Len(requests) >= 1
    /\ requests[Len(requests)].to = "exchange"
    /\ Len(fetched) = Len(requests)
TokenResponse == fetched[Len(fetched)]
TokenGranted ==
    /\ ExchangeFetched
    /\ TokenResponse.status = 200
    /\ TokenResponse.body.fmt = "json"
    /\ TokenResponse.body.access_token # ""

\* C14: when the token endpoint answers 200 with an access_token, the login returns
\* (access_token, expires_in), expires_in being the value of the response when the
\* field is present and 3600 when it is absent.
C14_TokenAndExpiry ==
    TokenGranted =>
        /\ lpc = "returned"
        /\ lresult.kind = "ok"
        /\ lresult.token = TokenResponse.body.access_token
        /\ TokenResponse.body.has_expires_in =>
               lresult.expires_in = TokenResponse.body.expires_in
        /\ ~TokenResponse.body.has_expires_in => lresult.expires_in = 3600

\* {"access_token": "tok1"} without expires_in: ("tok1", 3600) is returned.
C14_Witness ==
    /\ TokenGranted
    /\ ~TokenResponse.body.has_expires_in
    /\ lresult = [kind |-> "ok", token |-> "tok1", expires_in |-> 3600]

\* ---- C15
\* C15 (as stated): whenever the transport raises during a request of the login
\* (the login ends while awaiting the request, with no answer fetched), the login
\* raises CannotConnect.
C15_TransportIsCannotConnect ==
    [][(/\ lpc \in {"discover", "authorize", "post", "confirm", "exchange"}
        /\ lpc' = "raised"
        /\ fetched' = fetched) => lresult'.kind = "CannotConnectError"]_vars

\* The total timeout ran out during the token exchange: TimeoutError left the login.
C15_Witness ==
    /\ lpc = "raised"
    /\ lresult.kind = "TimeoutError"
    /\ requests[Len(requests)].to = "exchange"
    /\ Len(fetched) < Len(requests)

\* ---- C16
\* C16: on a client without username or password no login is ever run or waited
\* for, no token is ever cached, and every request is issued with access_token None,
\* for which build_headers sets no Authorization header; the call goes on to its
\* request.
C16_Anonymous ==
    ~credentials =>
        /\ nLogins = 0
        /\ access_token = 0
        /\ \A c \in Callers :
              /\ pc[c] \notin {"auth_lock", "login"}
              /\ tok[c] = 0
              /\ \A i \in 1..Len(logins[c]) : logins[c][i] = 0

\* Without credentials a call was answered 200 on its first attempt and returned.
C16_Witness ==
    /\ ~credentials
    /\ pc[1] = "done" /\ result[1] = Returned
    /\ https[1] = 1 /\ tok[1] = 0 /\ nLogins = 0

\* ---- C17
\* What the client computes for a name, and the names it computes.
ClientValue(a, n) ==
    IF n = "Accept" THEN "application/json"
    ELSE IF n = "Content-Type" THEN a.content_type
    ELSE IF n = "Authorization" THEN "Bearer " \o a.access_token
    ELSE a.subscription_key
ClientNames(a) ==
    {"Accept"}
    \cup (IF Truthy(a.content_type) THEN {"Content-Type"} ELSE {})
    \cup (IF Truthy(a.access_token) THEN {"Authorization"} ELSE {})
    \cup (IF Truthy(a.subscription_key) THEN {"ocp-apim-subscription-key"} ELSE {})
BuiltHeaders == args.fn = "build_headers" /\ ret.done

\* C17: the result of build_headers has exactly the names of the client's
\* entries, the default headers and the per-call headers; a name carries the
\* per-call value if there is one, else the default header's value if there is
\* one, else the value the client computed.
C17_LaterWins ==
    BuiltHeaders =>
        LET h == ret.value
            d == args.default_headers
            x == args.extra_headers
        IN  /\ DOMAIN h = ClientNames(args) \cup DOMAIN d \cup DOMAIN x
            /\ \A n \in DOMAIN h :
                  h[n] = IF n \in DOMAIN x THEN x[n]
                         ELSE IF n \in DOMAIN d THEN d[n]
                         ELSE ClientValue(args, n)

\* Authorization is computed by the client, set to another value by a default
\* header and to a third by a per-call header, next to a default header of the
\* caller's own: the per-call value is in the result, and so is X-Test.
C17_Witness ==
    /\ BuiltHeaders
    /\ args.access_token = "abc"
    /\ args.default_headers = [n \in {"Authorization", "X-Test"} |-> "1"]
    /\ args.extra_headers = [n \in {"Authorization"} |-> "2"]
    /\ ret.value["Authorization"] = "2"
    /\ ret.value["X-Test"] = "1"

\* ---- C18
\* The 2xx answers whose errors array is not empty.
ErrorsAnswers == {p \in OkAnswers : Get(Payload(p), "errors") \notin {"None", "[]"}}

\* C18: when a GraphQL call is answered 2xx with a non-empty errors array, that
\* step ends the call: it returns (nothing is raised) a response carrying the
\* errors of the body, on the attempt that sent the request, with no further
\* request or sleep, and the cached token and its expiry stay as they were.
C18_ErrorsReturned ==
    [][\A c \in Callers, p \in ErrorsAnswers :
          ResponseOk(c, p) =>
              /\ kind[c] = "graphql"
              /\ pc'[c] = "done"
              /\ result'[c] = Returned
              /\ response'[c].errors = Get(Payload(p), "errors")
              /\ attempt'[c] = attempt[c]
              /\ https'[c] = https[c]
              /\ sleeps'[c] = sleeps[c]
              /\ access_token' = access_token
              /\ token_expires_at' = token_expires_at]_vars

\* A call with a cached token was answered 2xx with errors on its first attempt:
\* it returned them after one request, and the token is still cached.
C18_Witness ==
    /\ pc[1] = "done"
    /\ kind[1] = "graphql"
    /\ result[1] = Returned
    /\ response[1].errors = "[e1]"
    /\ attempt[1] = 0 /\ https[1] = 1 /\ sleeps[1] = 0
    /\ access_token # 0 /\ tok[1] = access_token

\* ---- C19
\* YYYY-MM-DD HH:MM:SS: nineteen characters, digits but for the two hyphens, the
\* blank and the two colons.
ExactFormat(v) ==
    /\ Len(v) = 19
    /\ \A i \in 1..19 :
          IF i \in {5, 8} THEN v[i] = "-"
          ELSE IF i = 11 THEN v[i] = " "
          ELSE IF i \in {14, 17} THEN v[i] = ":"
          ELSE v[i] \in Digits
CalledRealtimeMeterInfo == args.fn = "realtime_meter_info" /\ ret.done
NoNetworkActivity ==
    /\ pc[1] = "idle"
    /\ session = 0 /\ nSessions = 0 /\ nLogins = 0 /\ https[1] = 0

\* C19: a realtime_meter_info call whose start_datetime is empty or not in the
\* format YYYY-MM-DD HH:MM:SS ends with ValueError, with no session created, no
\* login run and no request sent.
C19_MalformedFailsFirst ==
    (CalledRealtimeMeterInfo /\ ~ExactFormat(args.start_datetime)) =>
        ret.raised = "ValueError" /\ NoNetworkActivity

\* C19, what the validation does give: a call the validation turns down ends with
\* ValueError before any network activity, and a StartDateTime that goes on to
\* request_rest is one strptime reads.
C19_RejectedFailsFirst ==
    CalledRealtimeMeterInfo =>
        IF ret.raised = "none"
        THEN pc[1] = "ensure" /\ Strptime(ret.value.params["StartDateTime"])
        ELSE ret.raised = "ValueError" /\ NoNetworkActivity

\* A start_datetime without leading zeros went through the validation: no
\* ValueError, request_rest is entered with it.
C19_Witness ==
    /\ CalledRealtimeMeterInfo
    /\ args.start_datetime = Unpadded
    /\ args.params = <<>>
    /\ ret.raised = "none"
    /\ ret.value.params["StartDateTime"] = Unpadded
    /\ pc[1] = "ensure" /\ kind[1] = "rest"

\* ---- C20
CalculatedRetryDelay == args.fn = "_calculate_retry_delay" /\ ret.done
\* b = min(initial_delay * exponential_base^n, max_delay)
BaseDelay == CappedDelay(args.attempt, args.initial_delay, args.max_delay, args.exponential_base)

\* C20 as stated: for every attempt index the delay lies in [0.75*b, 1.25*b],
\* is not negative and is at most 1.25 * max_delay.
C20_WithinJitterBand ==
    CalculatedRetryDelay =>
        /\ 3 * BaseDelay <= 4 * ret.value
        /\ 4 * ret.value <= 5 * BaseDelay
        /\ ret.value >= 0
        /\ 4 * ret.value <= 5 * args.max_delay

\* C20, amended: for every attempt index the delay lies in [0.75*b, 1.25*b] when
\* b >= 0 and is 0 when b < 0; it is never negative and never exceeds
\* 1.25 * max_delay or, when max_delay is negative, 0.
C20_WithinJitterBandOrZero ==
    CalculatedRetryDelay =>
        /\ IF BaseDelay >= 0
           THEN 3 * BaseDelay <= 4 * ret.value /\ 4 * ret.value <= 5 * BaseDelay
           ELSE ret.value = 0
        /\ ret.value >= 0
        /\ 4 * ret.value <= Maximum(0, 5 * args.max_delay)

\* Attempt 3 with initial_delay 1 s, base 3 and max_delay 10 s: 27 s is capped at
\* 10 s, and the largest random number gives 10 s + 1.875 s.
C20_Witness ==
    /\ CalculatedRetryDelay
    /\ args.attempt = 3 /\ args.initial_delay = Second /\ args.exponential_base = 3
    /\ args.max_delay = 10 * Second /\ args.random = 7
    /\ BaseDelay = 10 * Second
    /\ ret.value = 190

\* ---- C21
Failed(c) == pc[c] = "done" /\ result[c].exc \notin {"none", "ok"}

\* C21: a call of execute that fails raises GraphQLError or RetryExhaustedError,
\* a call of request_rest that fails raises RestAPIError or RetryExhaustedError,
\* and nothing else.
C21_OnlyApiErrors ==
    \A c \in Callers :
        Failed(c) => result[c].exc \in {ApiErrorOf(kind[c]), "RetryExhaustedError"}

\* C21, what holds: the only other exception is the ValueError of request_rest
\* with a relative path and no rest_base_url, raised on an attempt that is not
\* the last permitted one; execute raises GraphQLError or RetryExhaustedError.
C21_OnlyApiErrorsOrValueError ==
    \A c \in Callers :
        Failed(c) =>
            \/ result[c].exc \in {ApiErrorOf(kind[c]), "RetryExhaustedError"}
            \/ /\ result[c].exc = "ValueError"
               /\ kind[c] = "rest" /\ ~Resolvable
               /\ attempt[c] < max_attempts - 1

\* request_rest without a base URL: the first attempt sent nothing and the call
\* ended with a bare ValueError.
C21_Witness ==
    /\ pc[1] = "done" /\ kind[1] = "rest" /\ rest_base_url = ""
    /\ result[1].exc = "ValueError"
    /\ outcome[1] = "ValueError" /\ attempt[1] = 0 /\ https[1] = 0

\* ---- C22
\* C22: of the requests of a login, the token exchange and no other carries the
\* code_verifier, and the authorization request and no other carries the
\* code_challenge.
C22_PkceWhere ==
    \A i \in 1..Len(requests) :
        /\ requests[i].pkce = "code_verifier" <=> requests[i].to = "exchange"
        /\ requests[i].pkce = "code_challenge" <=> requests[i].to = "authorize"

\* A login went through all five requests and returned a token.
C22_Witness ==
    /\ lpc = "returned"
    /\ [i \in 1..Len(requests) |-> requests[i].to]
           = <<"discover", "authorize", "post", "confirm", "exchange">>
    /\ requests[2].pkce = "code_challenge"
    /\ requests[5].pkce = "code_verifier"

\* ---- C23
\* C23: a 401 that answers an attempt of index 1 or more ends the call (401 is not
\* among the retryable statuses): that step clears the cached token and its
\* expiry and raises to the caller without a sleep, and once an attempt of index
\* 1 or more has ended with 401 the call is over, so no retry and no login
\* follow within it.
C23_Later401Terminal ==
    [][\A c \in Callers :
          /\ (pc[c] = "http" /\ attempt[c] >= 1 /\ pc'[c] # "http" /\ outcome'[c] = "401") =>
                 /\ access_token' = 0 /\ token_expires_at' = 0
                 /\ pc'[c] = "done"
                 /\ result'[c].exc \in {ApiErrorOf(kind[c]), "RetryExhaustedError"}
                 /\ sleeps'[c] = sleeps[c]
                 /\ nLogins' = nLogins
          /\ (outcome'[c] = "401" /\ attempt'[c] >= 1) =>
                 /\ pc'[c] = "done"
                 /\ sleeps'[c] = attempt'[c]
                 /\ https'[c] <= attempt'[c] + 1]_vars

\* The first attempt failed with 500 and was retried; the second was answered 401
\* with a third attempt still permitted: the call ended there with the 401.
C23_Witness ==
    /\ 401 \notin RetryOnStatus
    /\ max_attempts = 3 /\ attempt[1] = 1 /\ ~first401[1]
    /\ outcome[1] = "401" /\ pc[1] = "done"
    /\ result[1].exc = ApiErrorOf(kind[1]) /\ result[1].status = 401
    /\ https[1] = 2 /\ sleeps[1] = 1 /\ access_token = 0

\* ---- C24
\* The attempt of c failed in the transport with attempts remaining, and the
\* handler has decided: the call sleeps before a retry or is over.
TransportFailed(c) ==
    /\ outcome[c] \in AllTransportErrors
    /\ attempt[c] < max_attempts - 1
    /\ pc[c] \in {"sleep", "done"}
Retried(c) == pc[c] = "sleep"
Timeouts == {"TimeoutError", "ServerTimeoutError"}
ConnectionErrors == {"ClientConnectionError", "ServerDisconnectedError"}

\* C24: with attempts remaining, a timeout is retried exactly when
\* retry_on_timeout is set, and a connection or disconnect error exactly when
\* retry_on_connection_errors is set.
C24_SwitchDecides ==
    \A c \in Callers :
        TransportFailed(c) =>
            /\ outcome[c] \in Timeouts => (Retried(c) <=> retry_on_timeout)
            /\ outcome[c] \in ConnectionErrors => (Retried(c) <=> retry_on_connection_errors)

\* C24, what holds: that rule for every class but aiohttp.ServerTimeoutError,
\* which is retried when either switch is set.
C24_SwitchDecidesButServerTimeout ==
    \A c \in Callers :
        TransportFailed(c) =>
            /\ outcome[c] = "TimeoutError" => (Retried(c) <=> retry_on_timeout)
            /\ outcome[c] \in ConnectionErrors => (Retried(c) <=> retry_on_connection_errors)
            /\ outcome[c] = "ServerTimeoutError" =>
                   (Retried(c) <=> (retry_on_timeout \/ retry_on_connection_errors))

\* retry_on_timeout is off, retry_on_connection_errors on: the first attempt
\* failed with ServerTimeoutError and the call sleeps before its retry.
C24_Witness ==
    /\ ~retry_on_timeout /\ retry_on_connection_errors
    /\ max_attempts = 3 /\ attempt[1] = 0
    /\ outcome[1] = "ServerTimeoutError"
    /\ pc[1] = "sleep" /\ sleeps[1] = 1

\* ---- C25
\* C25: when the discovery GET, the authorization GET or the token POST is
\* answered with a status other than 200, the login has raised
\* CannotConnectError and that request is the last the login sent.
C25_Non200IsCannotConnect ==
    \A i \in 1..Len(fetched) :
        (requests[i].to \in {"discover", "authorize", "exchange"} /\ fetched[i].status # 200) =>
            /\ lpc = "raised"
            /\ lresult.kind = "CannotConnectError"
            /\ Len(requests) = i

\* The token POST of a login that got its code through the sign-in was answered
\* 403: the login raised CannotConnectError after five requests.
C25_Witness ==
    /\ Len(fetched) = 5 /\ requests[5].to = "exchange"
    /\ fetched[5].status = 403
    /\ lpc = "raised" /\ lresult.kind = "CannotConnectError"

\* ---- C26
\* The i-th answer is a 200 discovery document or token response with a body
\* of the given kind ("empty", "garbage" or "json").
JsonStepAnswered(i, fmt) ==
    /\ i \in 1..Len(fetched)
    /\ fetched[i].status = 200
    /\ IF requests[i].to = "discover" THEN fetched[i].body = fmt
       ELSE IF requests[i].to = "exchange" THEN fetched[i].body.fmt = fmt
       ELSE FALSE

\* C26: a discovery document or a token response with status 200 and a body
\* that is no JSON makes the login raise CannotConnectError.
C26_UnparsableIsCannotConnect ==
    \A i \in 1..Len(fetched) :
        (JsonStepAnswered(i, "garbage") \/ JsonStepAnswered(i, "empty")) =>
            lpc = "raised" /\ lresult.kind = "CannotConnectError"

\* C26, what holds: an empty body makes the login raise CannotConnectError, a
\* body that is text but no JSON makes it raise json.JSONDecodeError; either way
\* the login ends there.
C26_UnparsableEndsLogin ==
    \A i \in 1..Len(fetched) :
        /\ JsonStepAnswered(i, "empty") =>
               lpc = "raised" /\ lresult.kind = "CannotConnectError" /\ Len(requests) = i
        /\ JsonStepAnswered(i, "garbage") =>
               lpc = "raised" /\ lresult.kind = "JSONDecodeError" /\ Len(requests) = i

\* The token response of a login came with status 200 and a body that is no
\* JSON: the login raised JSONDecodeError.
C26_Witness ==
    /\ Len(fetched) = 5
    /\ JsonStepAnswered(5, "garbage")
    /\ lpc = "raised" /\ lresult.kind = "JSONDecodeError"

\* ---- C27
\* C27: a confirmation GET answered 403 makes the login raise InvalidAuthError,
\* one answered with another status than 200 makes it raise CannotConnectError,
\* and in both cases the login has sent no token-exchange request.
C27_ConfirmFailure ==
    \A i \in 1..Len(fetched) :
        (requests[i].to = "confirm" /\ fetched[i].status # 200) =>
            /\ lpc = "raised"
            /\ lresult.kind = (IF fetched[i].status = 403 THEN "InvalidAuthError"
                               ELSE "CannotConnectError")
            /\ \A j \in 1..Len(requests) : requests[j].to # "exchange"

\* A login whose confirmation GET was answered 403 has raised InvalidAuthError.
C27_Witness ==
    /\ Len(fetched) = 4 /\ requests[4].to = "confirm"
    /\ fetched[4].status = 403
    /\ lpc = "raised" /\ lresult.kind = "InvalidAuthError"

\* ---- C28
\* Bodies of the self-asserted POST in which none of the error signatures occurs:
\* no text at all, or text without any of them.
NoKnownPattern == {EmptyBody, {}}

\* C28: a credentials POST answered with another status than 200 makes the login
\* raise InvalidAuthError without a further request; one answered 200 with a body
\* in which no known error signature occurs is followed by the confirmation GET.
C28_PostCredentials ==
    \A i \in 1..Len(fetched) :
        requests[i].to = "post" =>
            /\ fetched[i].status # 200 =>
                   /\ lpc = "raised" /\ lresult.kind = "InvalidAuthError"
                   /\ Len(requests) = i
            /\ (fetched[i].status = 200 /\ fetched[i].body \in NoKnownPattern) =>
                   /\ Len(requests) > i
                   /\ requests[i + 1].to = "confirm"

\* The credentials POST was answered 200 with text that holds no known error
\* signature, and the login is waiting for the answer to its confirmation GET.
C28_Witness ==
    /\ Len(fetched) = 3 /\ requests[3].to = "post"
    /\ fetched[3].status = 200 /\ fetched[3].body = {}
    /\ lpc = "confirm"

\* ---- C29
\* The steps of the requests sent so far, in the order they were sent.
Steps == [i \in 1..Len(requests) |-> requests[i].to]
IsPrefix(s, t) == Len(s) <= Len(t) /\ s = SubSeq(t, 1, Len(s))
WithChallenge == <<"discover", "authorize", "post", "confirm", "exchange">>
WithoutChallenge == <<"discover", "authorize", "exchange">>

\* Pages of the authorization GET that hold a SETTINGS object that is JSON.
SettingsPages == {"challenge", "challenge_compact", "challenge_no_csrf"}

\* C29: the requests of one login are a prefix of Discover, Authorize,
\* PostCredentials, ConfirmSignin, Exchange or of Discover, Authorize, Exchange
\* (so none is sent twice); the credentials POST follows a 200 authorization page
\* that holds a settings object, the confirmation GET follows a credentials POST
\* answered 200 without error signature, the exchange carries a code that the
\* final URL of the request before it gave, and a login that has raised or
\* returned got no more answers than it sent requests.
C29_FixedOrder ==
    /\ IsPrefix(Steps, WithChallenge) \/ IsPrefix(Steps, WithoutChallenge)
    /\ \A i \in 2..Len(requests) :
           /\ Len(fetched) >= i - 1
           /\ fetched[i - 1].status = 200
           /\ requests[i].to = "post" =>
                  fetched[i - 1].body \in SettingsPages /\ settings # {}
           /\ requests[i].to = "confirm" =>
                  \/ fetched[i - 1].body = EmptyBody
                  \/ CheckB2CErrorResponse(fetched[i - 1].body) = ""
           /\ requests[i].to = "exchange" =>
                  /\ requests[i].code # ""
                  /\ requests[i].code = ExtractAuthResult(fetched[i - 1].url)[1]
                  /\ requests[i].code = auth_code
    /\ lpc \in {"raised", "returned"} => Len(fetched) <= Len(requests)

\* A login that went through the challenge page has sent its five requests and
\* returned.
C29_Witness ==
    /\ Steps = WithChallenge
    /\ Len(fetched) = 5
    /\ lpc = "returned"

\* ---- C30
\* The caller is alone on a client with credentials, its latest attempt was
\* answered 401, and it is in a later attempt of the same call.
RetryingAfter401(c) ==
    /\ callers = {c} /\ credentials
    /\ attempt[c] > 0
    /\ last_error[c].status = 401

\* The step issues the request of the caller's attempt.
IssuesRequest(c) == pc[c] # "http" /\ pc'[c] = "http"

\* C30: the request of an attempt that retries after a 401 (one caller,
\* credentials configured) follows a login run in that attempt, so after the 401;
\* it does not carry the token the 401 rejected, and the token it carries is the
\* one that login produced.
C30_RetriedTokenIsNew ==
    [][\A c \in Callers :
          (RetryingAfter401(c) /\ IssuesRequest(c)) =>
              /\ LoginsOfAttempt(c) >= 1
              /\ tok[c] # 0 => tok'[c] # tok[c]
              /\ tok'[c] # 0 => tok'[c] = nLogins /\ tok'[c] > tok[c]]_vars

\* The first request carried token 1 and was answered 401; the request of the
\* second attempt is out with token 2, which the second login produced.
C30_Witness ==
    \E c \in Callers :
        /\ RetryingAfter401(c)
        /\ first401[c]
        /\ pc[c] = "http"
        /\ attempt[c] = 1
        /\ LoginsOfAttempt(c) = 1
        /\ tok[c] = 2 /\ nLogins = 2

\* ---- C31
\* The step ends the caller's _get_access_token with a token: from the check
\* without the lock, from the check under the lock, or from the login.
ReturnsToken(c) ==
    /\ pc[c] \in {"token", "auth_lock", "login"}
    /\ pc'[c] \in {"http", "resolve"}
    /\ tok'[c] # 0

\* The token returned is the cached one and is more than 300 seconds before its
\* expiry.
OutsideBuffer(c) ==
    /\ tok'[c] = access_token'
    /\ now + 300 < token_expires_at'

LoggingIn == {c \in Callers : pc[c] = "login"}

\* C32: at most one caller of the client is inside a login, and that caller
\* holds the auth lock.
C32_OneLoginAtATime ==
    /\ Cardinality(LoggingIn) <= 1
    /\ \A c \in LoggingIn : auth_lock = c

\* One caller is inside a login while the other is suspended on the auth lock.
C32_Witness ==
    \E c, d \in Callers :
        /\ c # d
        /\ pc[c] = "login" /\ auth_lock = c
        /\ pc[d] = "auth_lock"

\* ---- C33
\* The step is the caller's request being answered 401.
Answered401(c) ==
    /\ pc[c] = "http" /\ pc'[c] # "http"
    /\ last_error'[c].status = 401
    /\ outcome'[c] = "401"

\* C33: a 401 answer to a request sent with a token that is no longer the cached
\* one leaves the cache as it is.
C33_Late401KeepsNewerToken ==
    [][\A c \in Callers :
          (Answered401(c) /\ access_token # 0 /\ access_token # tok[c]) =>
              UNCHANGED <<access_token, token_expires_at>>]_vars

\* C33, what holds: every 401 answer empties the cache, whichever token the
\* request was sent with and whichever token the cache holds.
C33_Every401ClearsCache ==
    [][\A c \in Callers :
          Answered401(c) => access_token' = 0 /\ token_expires_at' = 0]_vars

\* The request one caller sent with token 1 was answered 401 after the other
\* caller's login had installed token 2: the cache is empty while the other
\* caller's request with token 2 is still out.
C33_Witness ==
    \E c, d \in Callers :
        /\ c # d
        /\ outcome[c] = "401" /\ tok[c] = 1
        /\ pc[d] = "http" /\ tok[d] = 2
        /\ access_token = 0 /\ token_expires_at = 0

\* ---- C34
\* C34: the cached token and its expiry are both set or both None.
C34_TokenAndExpiryTogether ==
    (access_token = 0) <=> (token_expires_at = 0)

\* A login has filled the cache and a 401 has emptied it again: both fields are
\* None while the caller that was answered 401 is in its backoff sleep.
C34_Witness ==
    \E c \in Callers :
        /\ outcome[c] = "401" /\ tok[c] # 0
        /\ pc[c] = "sleep"
        /\ access_token = 0 /\ token_expires_at = 0

\* ---- C35
\* The step is the caller's login raising InvalidAuthError or CannotConnectError.
LoginFailed(c) ==
    /\ pc[c] = "login" /\ pc'[c] # "login"
    /\ last_error'[c].cls \in LoginErrors

\* The call ends with that step, without a request and without a sleep.
EndsWithoutRequest(c) ==
    /\ pc'[c] = "done"
    /\ https'[c] = https[c]
    /\ sleeps'[c] = sleeps[c]

\* RetryExhaustedError(attempts=max_attempts, last_error=<the login error>)
ExhaustedByLogin(c) ==
    /\ result'[c].exc = "RetryExhaustedError"
    /\ result'[c].attempts = max_attempts
    /\ result'[c].last = last_error'[c]

\* GraphQLError / RestAPIError(original_error=<the login error>)
WrappedLoginError(c) ==
    /\ result'[c].exc = ApiErrorOf(kind[c])
    /\ result'[c].orig = last_error'[c].cls

\* C35: a login that raises InvalidAuthError or CannotConnectError ends the call
\* at once, with no request sent and no sleep: on the last permitted attempt with
\* RetryExhaustedError carrying the login error as last_error, before that with
\* GraphQLError / RestAPIError carrying it as original_error.
C35_LoginFailureEndsCall ==
    [][\A c \in Callers :
          LoginFailed(c) =>
              /\ EndsWithoutRequest(c)
              /\ IF IsLastAttempt(attempt[c]) THEN ExhaustedByLogin(c)
                 ELSE WrappedLoginError(c)]_vars

\* C35, what holds: the same, except that request_rest called with a relative
\* path on a client without rest_base_url raises the ValueError of
\* _resolve_rest_url in place of the RestAPIError.
C35_LoginFailureEndsCallOrValueError ==
    [][\A c \in Callers :
          LoginFailed(c) =>
              /\ EndsWithoutRequest(c)
              /\ IF IsLastAttempt(attempt[c]) THEN ExhaustedByLogin(c)
                 ELSE IF kind[c] = "rest" /\ ~Resolvable
                 THEN result'[c].exc = "ValueError" /\ result'[c].orig = "none"
                 ELSE WrappedLoginError(c)]_vars

\* The login of a first attempt raised InvalidAuthError with attempts left: the
\* call has ended with the API error that wraps it, and no request was sent.
C35_Witness ==
    \E c \in Callers :
        /\ pc[c] = "done"
        /\ attempt[c] = 0 /\ max_attempts > 1
        /\ last_error[c].cls = "InvalidAuthError"
        /\ result[c].exc = ApiErrorOf(kind[c])
        /\ result[c].orig = "InvalidAuthError"
        /\ https[c] = 0 /\ sleeps[c] = 0

\* ---- C36
\* The login has raised InvalidAuthError or CannotConnectError.
LoginHasFailed == lpc = "raised" /\ lresult.kind \in LoginErrors

\* What login_data may hold when the login is entered.
EnteredWith == {"", "sub-old"}

\* The i-th answer ended at redirect_uri with an id_token that verifies.
VerifiedIdToken(i) ==
    /\ requests[i].to \in {"authorize", "confirm"}
    /\ fetched[i].status = 200
    /\ fetched[i].url.at_redirect
    /\ ParseRedirectParams(fetched[i].url).id_token = "valid"

\* C36: a login that has raised InvalidAuthError or CannotConnectError has left
\* login_data as it was when the login was entered.
C36_FailedLoginKeepsLoginData ==
    LoginHasFailed => login_data \in EnteredWith

\* C36, what holds: login_data holds what it held when the login was entered,
\* or the sub of a verified id_token that the final URL of the authorization or
\* of the confirmation carried (written when the result is extracted, whether
\* or not the login then fails), or the sub of the access token, and this last
\* only when the login has returned.
C36_SubOnlyFromVerifiedIdTokenOrReturn ==
    /\ login_data \in EnteredWith \cup {"sub-id", "sub-at"}
    /\ login_data = "sub-id" => \E i \in 1..Len(fetched) : VerifiedIdToken(i)
    /\ login_data = "sub-at" => lpc = "returned"
    /\ (LoginHasFailed /\ \A i \in 1..Len(fetched) : ~VerifiedIdToken(i)) =>
           login_data \in EnteredWith

\* The authorization ended at redirect_uri with a verified id_token and no
\* code: the login has raised CannotConnectError and login_data holds the sub.
C36_Witness ==
    /\ LoginHasFailed
    /\ lresult.kind = "CannotConnectError"
    /\ Len(requests) = 2 /\ Len(fetched) = 2
    /\ VerifiedIdToken(2)
    /\ login_data = "sub-id"

\* ---- C37
\* The session handed to the constructor has the id 1.
SuppliedSession == 1

\* The step is close() closing a session.
CloseCloses == closed' # closed

\* C37: a session supplied at construction stays the client's session and is
\* never closed; close() closes a session only when the client created it and
\* it is the current, still open session, and sets self._session to None only
\* on a client that creates its sessions.
C37_CloseOnlyOwnSession ==
    /\ [](~owns_session => session = SuppliedSession /\ SuppliedSession \notin closed)
    /\ [][CloseCloses =>
             /\ owns_session
             /\ session # 0 /\ session \notin closed
             /\ closed' = closed \cup {session}
             /\ session' = session]_vars
    /\ [][(session # 0 /\ session' = 0) => owns_session /\ closePc = "closing"]_vars

\* close() has closed and dropped the session the client created for a call.
C37_Witness ==
    /\ owns_session
    /\ nCloses = 1 /\ closePc = "idle"
    /\ closed = {1}
    /\ session = 0

\* ---- C38
\* Sessions the client created that are open and are not self._session: no
\* close() can reach them any more.
Orphans == {s \in 1..nSessions : s \notin closed /\ s # session}

\* C38: on a client that creates its sessions, whenever no close() is under way
\* every session _ensure_session has created is closed or is still
\* self._session, where the next close() closes it.
C38_CloseLeavesNoOpenSession ==
    (owns_session /\ closePc = "idle") => Orphans = {}

\* C38, what holds: as long as close() was not called there is no such session,
\* and each close() leaves at most one behind: the one _ensure_session created
\* while close() was awaiting session.close(), which close() then drops
\* without closing.
C38_AtMostOneOrphanPerClose ==
    owns_session =>
        /\ Cardinality(Orphans) <= nCloses
        /\ \A s \in Orphans : s > 1 /\ s - 1 \in closed

\* close() has returned, the session it closed is closed, and the session that
\* _ensure_session created in the meantime is open and no longer held.
C38_Witness ==
    /\ owns_session /\ closePc = "idle" /\ nCloses = 1
    /\ session = 0
    /\ closed = {1}
    /\ Orphans = {2}

InCall(c) == pc[c] \notin {"idle", "done"}

\* C40: a call is never in an attempt beyond max_attempts and never starts more
\* than max_attempts - 1 sleeps, and every call that is under way ends, also for
\* a caller that is suspended on the session lock or on the auth lock.
C40_CallsTerminate ==
    /\ [](\A c \in Callers :
             /\ attempt[c] < max_attempts
             /\ sleeps[c] <= max_attempts - 1)
    /\ \A c \in Callers : InCall(c) ~> pc[c] = "done"

\* Both calls have ended: one with the error of its own failed login, the other
\* after it had been suspended on the auth lock.
C40_Witness ==
    \E c, d \in Callers :
        /\ c # d
        /\ pc[c] = "done" /\ pc[d] = "done"
        /\ last_error[c].cls = "InvalidAuthError"
        /\ waited[d]

====
